---- MODULE Spec2Model ----
(***************************************************************************)
(* Emergency drone coordination server: the drone registry (list.c), the   *)
(* per-connection session thread (drone.c), the drone-centric matcher      *)
(* (ai.c), the survivor generator (survivor.c) and the statistics pass of  *)
(* the render loop (controller.c), as one state machine.                   *)
(*                                                                         *)
(* Every access to shared data in the source happens inside a critical     *)
(* section; an action of the model is one critical section (or one system  *)
(* call), and the three kinds of mutex are state, so a section is taken    *)
(* only when the source could take its lock.                               *)
(***************************************************************************)
EXTENDS Integers, Sequences, FiniteSets, TLC

----------------------------------------------------------------------------
(* Bounds of the model *)

\* connections accepted over the life of the process
NumConns == 2
\* capacity given to create_list for the drone registry (100 in controller.c)
ListCapacity == 2
\* size of survivor_array (MAX_SURVIVORS, 1000 in globals.h)
MaxSurvivors == 2
\* chunks of each socket's byte stream that are kept (the most recent ones)
WireWindow == 4
\* messages in a client's stream, and recv calls that return it
MaxMsgs == 3
MaxRecvs == 2

(* Program constants *)

NULL == 0
WAITING == 0
BEING_HELPED == 1
RESCUED == 2
ARCHIVED == 3
\* survivors recycled by one pass of the generator when the array is full
RecycleBatch == 5
INT_MAX == 2147483647
MapHeight == 30
MapWidth == 40

Conns == 1..NumConns
Nodes == 1..ListCapacity

Coord(x, y) == [x |-> x, y |-> y]

\* coordinates the interleaving specification draws from (inside the map)
CoordPool == {Coord(0, 0), Coord(1, 1)}
\* coordinates the single-cycle specification draws from (inside the map)
CycleCoords == {Coord(0, 0), Coord(1, 1), Coord(9, 9)}

\* rand() % map.height, rand() % map.width of the generator
GenCoords == {c \in CoordPool : c.x < MapHeight /\ c.y < MapWidth}

(* Threads, as holders of the mutexes *)
NoThread == <<"none", 0>>
AiThread == <<"ai", 0>>
GenThread == <<"generator", 0>>
StatsThread == <<"main", 0>>
Session(c) == <<"session", c>>

----------------------------------------------------------------------------
VARIABLES
    drones,         \* the List struct of the registry (with its lock)
    mem,            \* the registry's node array: prev, next, occupied, data (a Drone)
    survivor_array, \* survivor_array[1..num_survivors]
    survivors_mutex,
    spc,            \* each session thread's position in handle_drone_client
    slocal,         \* each session thread's locals: drone, node, target_coord
    ai,             \* the matcher thread: position and locals
    wire,           \* per socket: the chunks written to it, most recent WireWindow
    registrations,  \* history: <<socket, id>> of every registry add, in order
    cycle,          \* history: the current matcher cycle
    track,          \* which histories a specification keeps (never changes)
    inbound,        \* the byte stream of one connection, its framing and the
                    \* error counter (followed by the framing specification)
    main_pc,        \* the main thread's position in main()
    gen_pc          \* the generator thread's position in survivor_generator

vars == <<drones, mem, survivor_array, survivors_mutex, spc, slocal, ai, wire,
          registrations, cycle, track, inbound, main_pc, gen_pc>>

----------------------------------------------------------------------------
(* calculate_distance *)

Abs(n) == IF n < 0 THEN -n ELSE n

calculate_distance(a, b) == Abs(a.x - b.x) + Abs(a.y - b.y)

----------------------------------------------------------------------------
(* The registry: list.c.  Node i of the node array is i here, i = 1..capacity. *)

\* memset(&drone, 0, sizeof(Drone)); a node's data before its first use
ZeroDrone ==
    [id |-> 0, status |-> "IDLE", coord |-> Coord(0, 0), target |-> Coord(0, 0),
     socket |-> 0, lock |-> NoThread]

\* create_list: every node pushed on the free list, node 1 first
create_list_mem(capacity) ==
    [n \in 1..capacity |->
        [prev |-> IF n < capacity THEN n + 1 ELSE NULL,
         next |-> n - 1,
         occupied |-> 0,
         data |-> ZeroDrone]]

create_list(capacity) ==
    [head |-> NULL, tail |-> NULL, number_of_elements |-> 0, capacity |-> capacity,
     lastprocessed |-> 1, free_list |-> capacity,
     spaces_sem |-> capacity, elements_sem |-> 0, lock |-> NoThread]

\* find_memcell_fornode: first unoccupied node from lastprocessed to the end,
\* else from the start up to lastprocessed
find_memcell_fornode(L, M) ==
    LET hi == {n \in DOMAIN M : n >= L.lastprocessed /\ M[n].occupied = 0}
        lo == {n \in DOMAIN M : n < L.lastprocessed /\ M[n].occupied = 0}
        Min(S) == CHOOSE n \in S : \A m \in S : n <= m
    IN  IF hi # {} THEN Min(hi) ELSE IF lo # {} THEN Min(lo) ELSE NULL

\* get_free_node: the head of the free list, unlinked; else find_memcell_fornode
get_free_node(L, M) ==
    IF L.free_list # NULL
    THEN LET node == L.free_list
             nf == M[node].next
             M1 == IF nf # NULL THEN [M EXCEPT ![nf].prev = NULL] ELSE M
         IN  [node |-> node,
              list |-> [L EXCEPT !.free_list = nf],
              mem |-> [M1 EXCEPT ![node].next = NULL, ![node].prev = NULL]]
    ELSE [node |-> find_memcell_fornode(L, M), list |-> L, mem |-> M]

\* (a variant for comparison: add without the old head's link back to the new node)
add_without_backlink(L, M, data) ==
    IF L.number_of_elements >= L.capacity
    THEN [node |-> NULL, list |-> L, mem |-> M]
    ELSE LET g == get_free_node(L, M)
             node == g.node
         IN  IF node = NULL
             THEN [node |-> NULL, list |-> L, mem |-> M]
             ELSE LET M1 == [g.mem EXCEPT ![node].occupied = 1, ![node].data = data]
                      M2 == IF g.list.head # NULL
                            THEN [M1 EXCEPT ![node].prev = NULL,
                                            ![node].next = g.list.head]
                            ELSE M1
                      L1 == [g.list EXCEPT
                                !.head = node,
                                !.lastprocessed = node,
                                !.number_of_elements = @ + 1,
                                !.tail = IF @ = NULL THEN node ELSE @,
                                !.spaces_sem = @ - 1,
                                !.elements_sem = @ + 1]
                  IN  [node |-> node, list |-> L1, mem |-> M2]

\* add, after sem_wait(spaces_sem) has returned and with the list locked:
\* the new node becomes the head
add(L, M, data) ==
    IF L.number_of_elements >= L.capacity
    THEN [node |-> NULL, list |-> L, mem |-> M]
    ELSE LET g == get_free_node(L, M)
             node == g.node
         IN  IF node = NULL
             THEN [node |-> NULL, list |-> L, mem |-> M]
             ELSE LET M1 == [g.mem EXCEPT ![node].occupied = 1, ![node].data = data]
                      M2 == IF g.list.head # NULL
                            THEN [M1 EXCEPT ![g.list.head].prev = node,
                                            ![node].prev = NULL,
                                            ![node].next = g.list.head]
                            ELSE M1
                      L1 == [g.list EXCEPT
                                !.head = node,
                                !.lastprocessed = node,
                                !.number_of_elements = @ + 1,
                                !.tail = IF @ = NULL THEN node ELSE @,
                                !.spaces_sem = @ - 1,
                                !.elements_sem = @ + 1]
                  IN  [node |-> node, list |-> L1, mem |-> M2]

\* removenode, with the list locked
removenode(L, M, node) ==
    IF node = NULL
    THEN [result |-> 1, list |-> L, mem |-> M]
    ELSE LET prevnode == M[node].prev
             nextnode == M[node].next
             M1 == IF prevnode # NULL THEN [M EXCEPT ![prevnode].next = nextnode] ELSE M
             M2 == IF nextnode # NULL THEN [M1 EXCEPT ![nextnode].prev = prevnode] ELSE M1
             M3 == [M2 EXCEPT ![node].next = L.free_list, ![node].prev = NULL]
             M4 == IF L.free_list # NULL THEN [M3 EXCEPT ![L.free_list].prev = node] ELSE M3
             M5 == [M4 EXCEPT ![node].occupied = 0]
             L1 == [L EXCEPT
                       !.free_list = node,
                       !.number_of_elements = @ - 1,
                       !.tail = IF node = @ THEN prevnode ELSE @,
                       !.head = IF node = @ THEN nextnode ELSE @,
                       !.lastprocessed = node,
                       !.spaces_sem = @ + 1]
         IN  [result |-> 0, list |-> L1, mem |-> M5]

\* the nodes reached from the head by next, in order (at most k of them)
RECURSIVE Chain(_, _, _)
Chain(M, n, k) ==
    IF n = NULL \/ k = 0 THEN <<>> ELSE <<n>> \o Chain(M, M[n].next, k - 1)

----------------------------------------------------------------------------
(* The byte stream of a socket.  A message is two chunks; one send() writes *)
(* them in one piece, or in two with the socket released in between (the    *)
(* kernel waiting for buffer space), or fails and writes nothing.           *)

Chunk(type, id, part) == [type |-> type, id |-> id, part |-> part]

WireAppend(w, ch) ==
    LET s == Append(w, ch)
    IN  IF "wire" \notin track THEN w
        ELSE IF Len(s) > WireWindow THEN SubSeq(s, Len(s) - WireWindow + 1, Len(s))
        ELSE s

\* (the two ways of writing the whole message differ only in the byte stream)
SendOutcomes == IF "wire" \in track THEN {"fail", "full", "part"} ELSE {"fail", "full"}

\* what send() has written when it returns, or when it first lets go of the socket
SendFirst(w, type, id, outcome) ==
    CASE outcome = "fail" -> w
      [] outcome = "part" -> WireAppend(w, Chunk(type, id, 1))
      [] outcome = "full" -> WireAppend(WireAppend(w, Chunk(type, id, 1)), Chunk(type, id, 2))

SendRest(w, type, id) == WireAppend(w, Chunk(type, id, 2))

----------------------------------------------------------------------------
(* Survivors: survivor_array[i] of the source, i = 0..num_survivors-1, is   *)
(* survivor_array[i + 1] here.                                              *)

num_survivors == Len(survivor_array)

SurvivorIndexes(arr) == 0..(Len(arr) - 1)

\* the loop of find_closest_waiting_survivor over indexes i..n-1, with the
\* best index and distance so far (min_distance starts at INT_MAX: none)
RECURSIVE closest_from(_, _, _, _, _)
closest_from(arr, drone_pos, i, best, min_distance) ==
    IF i >= Len(arr)
    THEN best
    ELSE LET dist == calculate_distance(drone_pos, arr[i + 1].coord)
         IN  IF arr[i + 1].status = WAITING /\ dist < min_distance
             THEN closest_from(arr, drone_pos, i + 1, i, dist)
             ELSE closest_from(arr, drone_pos, i + 1, best, min_distance)

\* (a variant for comparison: the loop started at index 1)
find_closest_skipping_first(arr, drone_pos) ==
    closest_from(arr, drone_pos, 1, -1, INT_MAX)

find_closest_waiting_survivor(arr, drone_pos) ==
    closest_from(arr, drone_pos, 0, -1, INT_MAX)

\* the loop of update_drone_status over indexes i..n-1: the first survivor
\* being helped at the target becomes rescued
RECURSIVE rescue_from(_, _, _)
rescue_from(arr, target, i) ==
    IF i >= Len(arr)
    THEN arr
    ELSE IF arr[i + 1].status = BEING_HELPED /\ arr[i + 1].coord = target
         THEN [arr EXCEPT ![i + 1].status = RESCUED]
         ELSE rescue_from(arr, target, i + 1)

\* (a variant for comparison: the loop without its break)
rescue_all(arr, target) ==
    [k \in 1..Len(arr) |->
        IF arr[k].status = BEING_HELPED /\ arr[k].coord = target
        THEN [arr[k] EXCEPT !.status = RESCUED]
        ELSE arr[k]]

update_drone_status(arr, target) == rescue_from(arr, target, 0)

\* the recycling loop of survivor_generator over indexes i..n-1: survivors with
\* status >= 2 are reset, at most RecycleBatch of them; xy[i] is the i-th draw
RECURSIVE recycle_from(_, _, _, _)
recycle_from(arr, xy, i, recycled) ==
    IF i >= Len(arr) \/ recycled >= RecycleBatch
    THEN arr
    ELSE IF arr[i + 1].status >= RESCUED
         THEN recycle_from([arr EXCEPT ![i + 1] = [status |-> WAITING, coord |-> xy[i + 1]]],
                           xy, i + 1, recycled + 1)
         ELSE recycle_from(arr, xy, i + 1, recycled)

----------------------------------------------------------------------------
(* Inputs *)

\* the corners of the map and the nearest coordinates outside it
EdgeCoords ==
    {Coord(0, 0), Coord(MapHeight - 1, MapWidth - 1), Coord(MapHeight, MapWidth),
     Coord(-1, 0)}
\* positions the drones report: in the interleaving specification one inside
\* the map, in the specification of the map's edges ("edges" in track) those
DroneCoordPool == IF "edges" \in track THEN EdgeCoords ELSE {Coord(0, 0)}

\* an optional JSON member: <<>> when absent, <<v>> when present
Opt(S) == {<<>>} \cup {<<v>> : v \in S}

\* "status" of a HANDSHAKE
HandshakeStatus == Opt({"IDLE", "ON_MISSION", "OTHER"})
\* "status" of a STATUS_UPDATE
UpdateStatus == Opt({"idle", "busy", "other"})
\* "coord", "location", "target_location" with both x and y
CoordInputs == Opt(CoordPool)
\* "coord" of a HANDSHAKE and "location" of a STATUS_UPDATE
SessionCoordInputs == Opt(DroneCoordPool)

\* what the first recv of a connection returns
FirstMessages == {"eof", "unparseable", "not_handshake", "HANDSHAKE"}

----------------------------------------------------------------------------
(* History of a matcher cycle, kept by the single-cycle specification *)

NoCycle == [start |-> <<>>, survivors |-> <<>>, pairs |-> <<>>, done |-> FALSE]

\* the drones in scan order as the cycle starts, and the survivors
CycleBegin(c, L, M, arr) ==
    IF "cycle" \in track
    THEN [c EXCEPT !.start = [k \in 1..Len(Chain(M, L.head, L.capacity)) |->
                                 M[Chain(M, L.head, L.capacity)[k]].data],
                   !.survivors = arr,
                   !.pairs = <<>>,
                   !.done = FALSE]
    ELSE c

CycleEnd(c) == IF "cycle" \in track THEN [c EXCEPT !.done = TRUE] ELSE c

\* one pairing of the cycle: the drone (by socket), the survivor, and whether
\* the assignment took effect
CyclePair(c, socket, survivor_index, ok) ==
    IF "cycle" \in track
    THEN [c EXCEPT !.pairs = Append(@, [drone |-> socket, survivor |-> survivor_index,
                                        ok |-> ok])]
    ELSE c

----------------------------------------------------------------------------
(* Initial state: main() up to the creation of the threads *)

\* no client stream is followed
NoInbound ==
    [conn |-> 0, sent |-> <<>>, sep |-> <<>>, stream |-> <<>>, pending |-> <<>>, delivered |-> <<>>,
     error_count |-> 0, recvs |-> 0, aligned |-> TRUE]

\* (first: what the first recv returned, kept by the handshake specification)
NoLocals ==
    [drone |-> ZeroDrone, node |-> NULL, target_coord |-> Coord(0, 0), first |-> "none"]

AiIdle == [pc |-> "sleep", current |-> NULL, drone_pos |-> Coord(0, 0), survivor_index |-> -1]

InitWith(histories) ==
    /\ drones = create_list(ListCapacity)
    /\ mem = create_list_mem(ListCapacity)
    /\ survivor_array = <<>>
    /\ survivors_mutex = NoThread
    /\ spc = [c \in Conns |-> "hs_recv"]
    /\ slocal = [c \in Conns |-> NoLocals]
    /\ ai = AiIdle
    /\ wire = [c \in Conns |-> <<>>]
    /\ registrations = <<>>
    /\ cycle = NoCycle
    /\ track = histories
    /\ inbound = NoInbound
    /\ main_pc = "render"
    /\ gen_pc = "sleep"

Init == InitWith({})

----------------------------------------------------------------------------
(* handle_drone_client: the handshake *)

\* the first message as the handshake specification records it
FirstSeen(first) == IF "first" \in track THEN first ELSE "none"

\* (a variant for comparison: any parseable first message taken as a HANDSHAKE)
HsRecvLenient(c) ==
    /\ spc[c] = "hs_recv"
    /\ \E first \in FirstMessages :
          IF first \in {"eof", "unparseable"}
          THEN /\ spc' = [spc EXCEPT ![c] = "closed"]
               /\ slocal' = [slocal EXCEPT ![c].first = FirstSeen(first)]
          ELSE /\ drones.lock = NoThread
               /\ spc' = [spc EXCEPT ![c] = "hs_add"]
               /\ slocal' = [slocal EXCEPT ![c].drone = ZeroDrone,
                                           ![c].first = FirstSeen(first)]
    /\ UNCHANGED <<drones, mem, survivor_array, survivors_mutex, ai, wire,
                   registrations, cycle, track, inbound, main_pc, gen_pc>>

\* lines 212-305: the first recv; anything but a HANDSHAKE closes the socket.
\* A HANDSHAKE fills the local Drone: the id is the registry's current size
\* (read under the registry lock), status and coord come from the message.
\* The server only ever prints the id: a specification that does not follow
\* the ids ("ids" not in track) leaves it 0
HsRecv(c) ==
    /\ spc[c] = "hs_recv"
    /\ \E first \in FirstMessages, status \in HandshakeStatus, coord \in SessionCoordInputs :
          IF first # "HANDSHAKE"
          THEN /\ status = <<>> /\ coord = <<>>
               /\ spc' = [spc EXCEPT ![c] = "closed"]
               /\ slocal' = [slocal EXCEPT ![c].first = FirstSeen(first)]
          ELSE LET st == IF status = <<"ON_MISSION">> THEN "ON_MISSION" ELSE "IDLE"
                   xy == IF coord = <<>> THEN Coord(0, 0) ELSE coord[1]
               IN  /\ drones.lock = NoThread
                   /\ spc' = [spc EXCEPT ![c] = "hs_add"]
                   /\ slocal' = [slocal EXCEPT ![c].drone =
                                    [ZeroDrone EXCEPT !.id = IF "ids" \in track
                                                              THEN drones.number_of_elements
                                                              ELSE 0,
                                                      !.status = st, !.coord = xy,
                                                      !.target = xy],
                                                 ![c].first = FirstSeen(first)]
    /\ UNCHANGED <<drones, mem, survivor_array, survivors_mutex, ai, wire,
                   registrations, cycle, track, inbound, main_pc, gen_pc>>

\* lines 314-335: drones->add(drones, &drone); add waits on spaces_sem
HsAdd(c) ==
    /\ spc[c] = "hs_add"
    /\ drones.spaces_sem > 0
    /\ drones.lock = NoThread
    /\ LET r == add(drones, mem, [slocal[c].drone EXCEPT !.socket = c, !.lock = NoThread])
       IN  /\ drones' = r.list
           /\ mem' = r.mem
           /\ IF r.node = NULL
              THEN /\ spc' = [spc EXCEPT ![c] = "closed"]
                   /\ slocal' = [slocal EXCEPT ![c] = NoLocals]
                   /\ UNCHANGED registrations
              ELSE /\ spc' = [spc EXCEPT ![c] = "hs_ack"]
                   /\ slocal' = [slocal EXCEPT ![c] = [NoLocals EXCEPT !.node = r.node]]
                   /\ registrations' = IF "ids" \in track
                                       THEN Append(registrations, <<c, slocal[c].drone.id>>)
                                       ELSE registrations
    /\ UNCHANGED <<survivor_array, survivors_mutex, ai, wire, cycle, track, inbound, main_pc, gen_pc>>

\* lines 337-371: send(sock, ack_str); a failed send is only counted
HsAckSend(c) ==
    /\ spc[c] = "hs_ack"
    /\ \E outcome \in SendOutcomes :
          /\ wire' = [wire EXCEPT ![c] = SendFirst(@, "HANDSHAKE_ACK", 0, outcome)]
          /\ spc' = [spc EXCEPT ![c] = IF outcome = "part" THEN "hs_ack2" ELSE "ready"]
    /\ UNCHANGED <<drones, mem, survivor_array, survivors_mutex, slocal, ai,
                   registrations, cycle, track, inbound, main_pc, gen_pc>>

\* line 351, the send still in the kernel: the rest of the message
HsAckRest(c) ==
    /\ spc[c] = "hs_ack2"
    /\ wire' = [wire EXCEPT ![c] = SendRest(@, "HANDSHAKE_ACK", 0)]
    /\ spc' = [spc EXCEPT ![c] = "ready"]
    /\ UNCHANGED <<drones, mem, survivor_array, survivors_mutex, slocal, ai,
                   registrations, cycle, track, inbound, main_pc, gen_pc>>

----------------------------------------------------------------------------
(* handle_drone_client: the message loop.  d is the registered Drone,       *)
(* mem[slocal[c].node].data.                                                *)

DLock(n) == mem[n].data.lock

\* lines 479-527: STATUS_UPDATE, under d->lock
SessStatusUpdate(c) ==
    /\ spc[c] = "ready"
    /\ LET n == slocal[c].node
       IN  /\ DLock(n) = NoThread
           /\ \E location \in SessionCoordInputs, status \in UpdateStatus :
                 mem' = [mem EXCEPT
                    ![n].data.coord = IF location = <<>> THEN @ ELSE location[1],
                    ![n].data.status = IF status = <<"idle">> THEN "IDLE"
                                       ELSE IF status = <<"busy">> THEN "ON_MISSION"
                                       ELSE @]
    /\ UNCHANGED <<drones, survivor_array, survivors_mutex, spc, slocal, ai, wire,
                   registrations, cycle, track, inbound, main_pc, gen_pc>>

\* lines 528-549: MISSION_COMPLETE; target_coord is d->target (read without the
\* lock) unless the message carries target_location
SessMissionComplete(c) ==
    /\ spc[c] = "ready"
    /\ \E target_location \in CoordInputs :
          slocal' = [slocal EXCEPT ![c].target_coord =
                        IF target_location = <<>>
                        THEN mem[slocal[c].node].data.target
                        ELSE target_location[1]]
    /\ spc' = [spc EXCEPT ![c] = "mc_idle"]
    /\ UNCHANGED <<drones, mem, survivor_array, survivors_mutex, ai, wire,
                   registrations, cycle, track, inbound, main_pc, gen_pc>>

\* lines 551-553: d->status = IDLE under d->lock
SessMissionIdle(c) ==
    /\ spc[c] = "mc_idle"
    /\ DLock(slocal[c].node) = NoThread
    /\ mem' = [mem EXCEPT ![slocal[c].node].data.status = "IDLE"]
    /\ spc' = [spc EXCEPT ![c] = "mc_update"]
    /\ UNCHANGED <<drones, survivor_array, survivors_mutex, slocal, ai, wire,
                   registrations, cycle, track, inbound, main_pc, gen_pc>>

\* line 556: update_drone_status(d, &target_coord), under survivors_mutex
SessMissionUpdate(c) ==
    /\ spc[c] = "mc_update"
    /\ survivors_mutex = NoThread
    /\ survivor_array' = update_drone_status(survivor_array, slocal[c].target_coord)
    /\ slocal' = [slocal EXCEPT ![c].target_coord = Coord(0, 0)]
    /\ spc' = [spc EXCEPT ![c] = "ready"]
    /\ UNCHANGED <<drones, mem, survivors_mutex, ai, wire, registrations, cycle, track, inbound,
                   main_pc, gen_pc>>

\* lines 564-577: HEARTBEAT_RESPONSE only refreshes last_update, under d->lock
SessHeartbeatResponse(c) ==
    /\ spc[c] = "ready"
    /\ DLock(slocal[c].node) = NoThread
    /\ UNCHANGED vars

\* lines 473-580: any other type (or no type) falls through the dispatch
SessOtherMessage(c) ==
    /\ spc[c] = "ready"
    /\ UNCHANGED vars

\* lines 378-392: recv returns 0 or an error; d->status = DISCONNECTED under d->lock
SessDisconnect(c) ==
    /\ spc[c] = "ready"
    /\ DLock(slocal[c].node) = NoThread
    /\ mem' = [mem EXCEPT ![slocal[c].node].data.status = "DISCONNECTED"]
    /\ spc' = [spc EXCEPT ![c] = "remove"]
    /\ UNCHANGED <<drones, survivor_array, survivors_mutex, slocal, ai, wire,
                   registrations, cycle, track, inbound, main_pc, gen_pc>>

\* (a variant for comparison: the socket closed with the node left in place)
SessRemoveSkipped(c) ==
    /\ spc[c] = "remove"
    /\ slocal' = [slocal EXCEPT ![c] = NoLocals]
    /\ spc' = [spc EXCEPT ![c] = "closed"]
    /\ UNCHANGED <<drones, mem, survivor_array, survivors_mutex, ai, wire, registrations,
                   cycle, track, inbound, main_pc, gen_pc>>

\* lines 394-405 and 590: drones->removenode(drones, node), then close(sock)
SessRemove(c) ==
    /\ spc[c] = "remove"
    /\ drones.lock = NoThread
    /\ LET r == removenode(drones, mem, slocal[c].node)
       IN  /\ drones' = r.list
           /\ mem' = r.mem
    /\ slocal' = [slocal EXCEPT ![c] = NoLocals]
    /\ spc' = [spc EXCEPT ![c] = "closed"]
    /\ UNCHANGED <<survivor_array, survivors_mutex, ai, wire, registrations, cycle, track, inbound,
                   main_pc, gen_pc>>

----------------------------------------------------------------------------
(* drone_centric_ai_controller and assign_mission.  d is mem[ai.current].data. *)

\* lines 386-389: lock the registry, start at the head
AiCycleStart ==
    /\ ai.pc = "sleep"
    /\ drones.lock = NoThread
    /\ drones' = [drones EXCEPT !.lock = AiThread]
    /\ ai' = [ai EXCEPT !.pc = "scan", !.current = drones.head]
    /\ cycle' = CycleBegin(cycle, drones, mem, survivor_array)
    /\ UNCHANGED <<mem, survivor_array, survivors_mutex, spc, slocal, wire, registrations, track, inbound,
                   main_pc, gen_pc>>

\* lines 391-403 and 416-421: the status of the current drone, under d->lock
AiScan ==
    /\ ai.pc = "scan"
    /\ ai.current # NULL
    /\ DLock(ai.current) = NoThread
    /\ IF mem[ai.current].data.status = "IDLE"
       THEN ai' = [ai EXCEPT !.pc = "find_pos"]
       ELSE ai' = [ai EXCEPT !.current = mem[ai.current].next]
    /\ UNCHANGED <<drones, mem, survivor_array, survivors_mutex, spc, slocal, wire,
                   registrations, cycle, track, inbound, main_pc, gen_pc>>

\* (a variant for comparison: the matcher returning after its first pass)
AiCycleEndStops ==
    /\ ai.pc = "scan"
    /\ ai.current = NULL
    /\ drones' = [drones EXCEPT !.lock = NoThread]
    /\ ai' = [ai EXCEPT !.pc = "returned"]
    /\ cycle' = CycleEnd(cycle)
    /\ UNCHANGED <<mem, survivor_array, survivors_mutex, spc, slocal, wire,
                   registrations, track, inbound, main_pc, gen_pc>>

\* lines 391, 424 and 440: the end of the list; unlock the registry and sleep
AiCycleEnd ==
    /\ ai.pc = "scan"
    /\ ai.current = NULL
    /\ drones' = [drones EXCEPT !.lock = NoThread]
    /\ ai' = [ai EXCEPT !.pc = "sleep"]
    /\ cycle' = CycleEnd(cycle)
    /\ UNCHANGED <<mem, survivor_array, survivors_mutex, spc, slocal, wire,
                   registrations, track, inbound, main_pc, gen_pc>>

\* find_closest_waiting_survivor, lines 275-278: the drone's coord, under d->lock
AiFindPos ==
    /\ ai.pc = "find_pos"
    /\ DLock(ai.current) = NoThread
    /\ ai' = [ai EXCEPT !.pc = "find_scan", !.drone_pos = mem[ai.current].data.coord]
    /\ UNCHANGED <<drones, mem, survivor_array, survivors_mutex, spc, slocal, wire,
                   registrations, cycle, track, inbound, main_pc, gen_pc>>

\* find_closest_waiting_survivor, lines 280-302, under survivors_mutex; then
\* lines 408-421 of the controller
AiFindScan ==
    /\ ai.pc = "find_scan"
    /\ survivors_mutex = NoThread
    /\ LET survivor_index == find_closest_waiting_survivor(survivor_array, ai.drone_pos)
       IN  IF survivor_index >= 0
           THEN ai' = [ai EXCEPT !.pc = "am_lock", !.survivor_index = survivor_index,
                                 !.drone_pos = Coord(0, 0)]
           ELSE ai' = [ai EXCEPT !.pc = "scan", !.current = mem[ai.current].next,
                                 !.drone_pos = Coord(0, 0)]
    /\ UNCHANGED <<drones, mem, survivor_array, survivors_mutex, spc, slocal, wire,
                   registrations, cycle, track, inbound, main_pc, gen_pc>>

\* assign_mission, lines 71-83: pthread_mutex_lock(&drone->lock)
AmLockDrone ==
    /\ ai.pc = "am_lock"
    /\ ai.survivor_index >= 0 /\ ai.survivor_index < num_survivors
    /\ DLock(ai.current) = NoThread
    /\ mem' = [mem EXCEPT ![ai.current].data.lock = AiThread]
    /\ ai' = [ai EXCEPT !.pc = "am_lock2"]
    /\ UNCHANGED <<drones, survivor_array, survivors_mutex, spc, slocal, wire,
                   registrations, cycle, track, inbound, main_pc, gen_pc>>

\* (a variant for comparison: the condition without its test of the drone)
AssignPreconditionSurvivorOnly(survivor, drone) ==
    survivor.status = WAITING

\* (a variant for comparison: the transaction without the write of line 97)
AmTransactionNoMark ==
    /\ ai.pc = "am_lock2"
    /\ survivors_mutex = NoThread
    /\ survivors_mutex' = AiThread
    /\ LET i == ai.survivor_index
           d == ai.current
       IN  IF survivor_array[i + 1].status = WAITING /\ mem[d].data.status = "IDLE"
           THEN /\ mem' = [mem EXCEPT ![d].data.target = survivor_array[i + 1].coord,
                                      ![d].data.status = "ON_MISSION"]
                /\ ai' = [ai EXCEPT !.pc = "am_send"]
           ELSE /\ ai' = [ai EXCEPT !.pc = "am_unlock"]
                /\ UNCHANGED mem
    /\ UNCHANGED <<drones, survivor_array, spc, slocal, wire, registrations, cycle, track, inbound,
                   main_pc, gen_pc>>

\* the condition of line 87
AssignPrecondition(survivor, drone) ==
    survivor.status = WAITING /\ drone.status = "IDLE"

\* assign_mission, lines 84-102: pthread_mutex_lock(&survivors_mutex), the
\* condition and, when it holds, the three assignments; lines 178-187 otherwise
AmTransaction ==
    /\ ai.pc = "am_lock2"
    /\ survivors_mutex = NoThread
    /\ survivors_mutex' = AiThread
    /\ LET i == ai.survivor_index
           d == ai.current
       IN  IF AssignPrecondition(survivor_array[i + 1], mem[d].data)
           THEN /\ mem' = [mem EXCEPT ![d].data.target = survivor_array[i + 1].coord,
                                      ![d].data.status = "ON_MISSION"]
                /\ survivor_array' = [survivor_array EXCEPT ![i + 1].status = BEING_HELPED]
                /\ ai' = [ai EXCEPT !.pc = IF mem[d].data.socket > 0 THEN "am_send"
                                           ELSE "am_unlock"]
                /\ cycle' = IF mem[d].data.socket > 0 THEN cycle
                            ELSE CyclePair(cycle, mem[d].data.socket, i, TRUE)
           ELSE /\ ai' = [ai EXCEPT !.pc = "am_unlock"]
                /\ cycle' = CyclePair(cycle, mem[d].data.socket, i, FALSE)
                /\ UNCHANGED <<mem, survivor_array>>
    /\ UNCHANGED <<drones, spc, slocal, wire, registrations, track, inbound, main_pc, gen_pc>>

\* (a variant for comparison: the failed send setting back the drone alone)
AmSendDroneOnly ==
    /\ ai.pc = "am_send"
    /\ LET i == ai.survivor_index
           d == ai.current
           sock == mem[d].data.socket
       IN  \E outcome \in SendOutcomes :
              /\ wire' = [wire EXCEPT ![sock] = SendFirst(@, "ASSIGN_MISSION", i, outcome)]
              /\ IF outcome = "fail"
                 THEN mem' = [mem EXCEPT ![d].data.status = "IDLE"]
                 ELSE UNCHANGED mem
              /\ ai' = [ai EXCEPT !.pc = IF outcome = "part" THEN "am_send2" ELSE "am_unlock"]
              /\ cycle' = CyclePair(cycle, sock, i, outcome # "fail")
    /\ UNCHANGED <<drones, survivor_array, survivors_mutex, spc, slocal, registrations, track,
                   inbound, main_pc, gen_pc>>

\* assign_mission, lines 105-159: send(drone->socket, mission_str); when it
\* fails both status fields are set back
AmSend ==
    /\ ai.pc = "am_send"
    /\ LET i == ai.survivor_index
           d == ai.current
           sock == mem[d].data.socket
       IN  \E outcome \in SendOutcomes :
              /\ wire' = [wire EXCEPT ![sock] = SendFirst(@, "ASSIGN_MISSION", i, outcome)]
              /\ IF outcome = "fail"
                 THEN /\ mem' = [mem EXCEPT ![d].data.status = "IDLE"]
                      /\ survivor_array' = [survivor_array EXCEPT ![i + 1].status = WAITING]
                 ELSE UNCHANGED <<mem, survivor_array>>
              /\ ai' = [ai EXCEPT !.pc = IF outcome = "part" THEN "am_send2" ELSE "am_unlock"]
              /\ cycle' = CyclePair(cycle, sock, i, outcome # "fail")
    /\ UNCHANGED <<drones, survivors_mutex, spc, slocal, registrations, track, inbound, main_pc, gen_pc>>

\* line 132, the send still in the kernel: the rest of the message
AmSendRest ==
    /\ ai.pc = "am_send2"
    /\ wire' = [wire EXCEPT ![mem[ai.current].data.socket] =
                   SendRest(@, "ASSIGN_MISSION", ai.survivor_index)]
    /\ ai' = [ai EXCEPT !.pc = "am_unlock"]
    /\ UNCHANGED <<drones, mem, survivor_array, survivors_mutex, spc, slocal,
                   registrations, cycle, track, inbound, main_pc, gen_pc>>

\* assign_mission, lines 189-191, and lines 412-421 of the controller
AmUnlock ==
    /\ ai.pc = "am_unlock"
    /\ survivors_mutex' = NoThread
    /\ mem' = [mem EXCEPT ![ai.current].data.lock = NoThread]
    /\ ai' = [ai EXCEPT !.pc = "scan", !.current = mem[ai.current].next,
                        !.survivor_index = -1]
    /\ UNCHANGED <<drones, survivor_array, spc, slocal, wire, registrations, cycle, track, inbound,
                   main_pc, gen_pc>>

----------------------------------------------------------------------------
(* survivor_generator: one pass of either loop, under survivors_mutex *)

SurvivorGenerate ==
    /\ survivors_mutex = NoThread
    /\ IF num_survivors < MaxSurvivors
       THEN \E xy \in GenCoords :
               survivor_array' = Append(survivor_array, [status |-> WAITING, coord |-> xy])
       ELSE \E xy \in [1..num_survivors -> GenCoords] :
               /\ \A k \in 1..num_survivors : survivor_array[k].status < RESCUED
                                                 => xy[k] = survivor_array[k].coord
               /\ survivor_array' = recycle_from(survivor_array, xy, 0, 0)
    /\ UNCHANGED <<drones, mem, survivors_mutex, spc, slocal, ai, wire, registrations, cycle, track, inbound,
                   main_pc, gen_pc>>

(* update_simulation_stats, lines 154-172: the pass over the survivors, which *)
(* turns every rescued survivor into an archived one                          *)

UpdateSimulationStats ==
    /\ survivors_mutex = NoThread
    /\ survivor_array' = [k \in 1..num_survivors |->
                             IF survivor_array[k].status = RESCUED
                             THEN [survivor_array[k] EXCEPT !.status = ARCHIVED]
                             ELSE survivor_array[k]]
    /\ UNCHANGED <<drones, mem, survivors_mutex, spc, slocal, ai, wire, registrations, cycle, track, inbound,
                   main_pc, gen_pc>>

----------------------------------------------------------------------------
SessionStep(c) ==
    \/ HsRecv(c) \/ HsAdd(c) \/ HsAckSend(c)
    \/ SessStatusUpdate(c)
    \/ SessMissionComplete(c) \/ SessMissionIdle(c) \/ SessMissionUpdate(c)
    \/ SessHeartbeatResponse(c) \/ SessOtherMessage(c)
    \/ SessDisconnect(c) \/ SessRemove(c)

MatcherStep ==
    \/ AiCycleStart \/ AiScan \/ AiCycleEnd \/ AiFindPos \/ AiFindScan
    \/ AmLockDrone \/ AmTransaction \/ AmSend \/ AmUnlock

(* The server: sessions, matcher, generator and statistics pass interleaved. *)
Next ==
    \/ \E c \in Conns : SessionStep(c)
    \/ MatcherStep
    \/ SurvivorGenerate
    \/ UpdateSimulationStats

Spec == Init /\ [][Next]_vars

(* The byte streams: connections that shake hands and then only listen or    *)
(* hang up, the matcher and the generator, with every send followed chunk by *)
(* chunk.                                                                    *)
InitWire == InitWith({"wire"})

NextWire ==
    \/ \E c \in Conns : \/ HsRecv(c) \/ HsAdd(c) \/ HsAckSend(c) \/ HsAckRest(c)
                        \/ SessDisconnect(c) \/ SessRemove(c)
    \/ MatcherStep
    \/ AmSendRest
    \/ SurvivorGenerate

SpecWire == InitWire /\ [][NextWire]_vars

(* The ids: the sessions alone, with the history of registrations. *)
InitIds == InitWith({"ids"})

NextIds == \E c \in Conns : SessionStep(c)

SpecIds == InitIds /\ [][NextIds]_vars

----------------------------------------------------------------------------
(* One matcher cycle after another with nothing else running: the registry   *)
(* is what registering 1..NumConns drones in turn leaves, the survivors are  *)
(* any array of at most MaxSurvivors, every send may fail.                   *)

\* the registry after the drones of ds have been added in this order
RECURSIVE RegistryOf(_)
RegistryOf(ds) ==
    IF ds = <<>>
    THEN [node |-> NULL, list |-> create_list(ListCapacity),
          mem |-> create_list_mem(ListCapacity)]
    ELSE LET r == RegistryOf(SubSeq(ds, 1, Len(ds) - 1))
         IN  add(r.list, r.mem, ds[Len(ds)])

\* the k-th connection's Drone as its handshake registers it
HandshakeDrone(k, status, coord) ==
    [ZeroDrone EXCEPT !.id = k - 1, !.status = status, !.coord = coord,
                      !.target = coord, !.socket = k]

CycleDrones ==
    UNION {[1..k -> [status : {"IDLE", "ON_MISSION"}, coord : CycleCoords]] :
              k \in 1..NumConns}

CycleSurvivors ==
    UNION {[1..n -> [status : {WAITING, BEING_HELPED, RESCUED}, coord : CycleCoords]] :
              n \in 0..MaxSurvivors}

InitCycle ==
    \E ds \in CycleDrones, arr \in CycleSurvivors :
       LET r == RegistryOf([k \in 1..Len(ds) |-> HandshakeDrone(k, ds[k].status, ds[k].coord)])
           NodeOf(c) == CHOOSE n \in Nodes : r.mem[n].occupied = 1 /\ r.mem[n].data.socket = c
       IN  /\ drones = r.list
           /\ mem = r.mem
           /\ survivor_array = arr
           /\ survivors_mutex = NoThread
           /\ spc = [c \in Conns |-> IF c <= Len(ds) THEN "ready" ELSE "hs_recv"]
           /\ slocal = [c \in Conns |-> IF c <= Len(ds)
                                        THEN [NoLocals EXCEPT !.node = NodeOf(c)]
                                        ELSE NoLocals]
           /\ ai = AiIdle
           /\ wire = [c \in Conns |-> <<>>]
           /\ registrations = <<>>
           /\ cycle = NoCycle
           /\ track = {"cycle"}
           /\ inbound = NoInbound
           /\ main_pc = "render"
           /\ gen_pc = "sleep"

NextCycle == MatcherStep

SpecCycle == InitCycle /\ [][NextCycle]_vars

----------------------------------------------------------------------------
(* Properties *)

\* the nodes that hold a registered drone
Registered == {n \in Nodes : mem[n].occupied = 1}

\* the survivors being helped at a coord, and the drones on a mission to it
HelpedAt(t) ==
    {i \in SurvivorIndexes(survivor_array) :
        survivor_array[i + 1].status = BEING_HELPED /\ survivor_array[i + 1].coord = t}

OnMissionTo(t) ==
    {n \in Registered : mem[n].data.status = "ON_MISSION" /\ mem[n].data.target = t}

(* C1: in every reachable state, every registered drone whose status is     *)
(* ON_MISSION has exactly one survivor with status BEING_HELPED whose coord  *)
(* equals the drone's target.                                                *)
C1_OnMissionDroneHasOneSurvivor ==
    \A n \in Registered :
       mem[n].data.status = "ON_MISSION" => Cardinality(HelpedAt(mem[n].data.target)) = 1

(* C2: in every reachable state, every survivor whose status is BEING_HELPED *)
(* has exactly one registered drone with status ON_MISSION whose target      *)
(* equals the survivor's coord.                                              *)
C2_HelpedSurvivorHasOneDrone ==
    \A i \in SurvivorIndexes(survivor_array) :
       survivor_array[i + 1].status = BEING_HELPED
          => Cardinality(OnMissionTo(survivor_array[i + 1].coord)) = 1

(* C3: for each connection the bytes written to its socket are whole        *)
(* messages one after another: the first chunk of a message is followed by   *)
(* the second chunk of the same message, never by a chunk of another one.    *)
C3_WritesSerialized ==
    \A c \in Conns : \A k \in 1..(Len(wire[c]) - 1) :
       wire[c][k].part = 1
          => /\ wire[c][k + 1].part = 2
             /\ wire[c][k + 1].type = wire[c][k].type
             /\ wire[c][k + 1].id = wire[c][k].id

\* a step of the matcher in which a drone receives a mission
AssignmentTakesEffect ==
    /\ ai.pc = "am_lock2"
    /\ mem[ai.current].data.status = "IDLE"
    /\ mem'[ai.current].data.status = "ON_MISSION"

(* C4: a survivor is reserved by a test-and-set under survivors_mutex: every *)
(* assignment that takes effect finds its survivor not BEING_HELPED and      *)
(* leaves it BEING_HELPED, so a survivor being helped is never assigned      *)
(* again until it has left that status.                                      *)
C4_OneReservationPerSurvivor ==
    [][AssignmentTakesEffect
          => /\ survivor_array[ai.survivor_index + 1].status # BEING_HELPED
             /\ survivor_array'[ai.survivor_index + 1].status = BEING_HELPED]_vars

\* an assignment has just taken effect while another registered drone is idle
C4_Witness ==
    /\ ai.pc = "am_send"
    /\ survivor_array[ai.survivor_index + 1].status = BEING_HELPED
    /\ \E n \in Registered : n # ai.current /\ mem[n].data.status = "IDLE"

C6_StatusTransitions ==
    [][\A n \in Nodes :
          (mem[n].occupied = 1 /\ mem'[n].occupied = 1)
             => /\ (mem[n].data.status = "IDLE" /\ mem'[n].data.status = "ON_MISSION")
                      => (ai.pc = "am_lock2" /\ ai.current = n)
                /\ (mem[n].data.status = "ON_MISSION" /\ mem'[n].data.status = "IDLE")
                      => \/ \E c \in Conns : spc[c] = "mc_idle" /\ slocal[c].node = n
                         \/ (ai.pc = "am_send" /\ ai.current = n)]_vars

(* C7: the ids of the registrations made so far, in the order they were      *)
(* made, are strictly increasing (and so all different).                     *)
C7_IdsUniqueIncreasing ==
    \A j \in 1..Len(registrations), k \in 1..Len(registrations) :
       j < k => registrations[j][2] < registrations[k][2]

(* C8: within one matcher cycle no survivor is selected for two drones,      *)
(* whether or not the earlier send succeeded.                                *)
C8_NoSurvivorSelectedTwice ==
    \A j \in 1..Len(cycle.pairs), k \in 1..Len(cycle.pairs) :
       j # k => cycle.pairs[j].survivor # cycle.pairs[k].survivor

\* the waiting survivor nearest to pos that is not excluded, lowest index on
\* a tie; -1 when there is none
ReferenceNearest(arr, pos, excluded) ==
    LET eligible == {i \in SurvivorIndexes(arr) :
                        arr[i + 1].status = WAITING /\ i \notin excluded}
    IN  IF eligible = {} THEN -1
        ELSE CHOOSE i \in eligible :
                \A j \in eligible :
                   \/ calculate_distance(pos, arr[i + 1].coord)
                         < calculate_distance(pos, arr[j + 1].coord)
                   \/ /\ calculate_distance(pos, arr[i + 1].coord)
                            = calculate_distance(pos, arr[j + 1].coord)
                      /\ i <= j

\* the reference rule over the drones D in visiting order
RECURSIVE ReferencePairs(_, _, _)
ReferencePairs(D, arr, excluded) ==
    IF D = <<>> THEN <<>>
    ELSE LET d == Head(D)
             i == ReferenceNearest(arr, d.coord, excluded)
         IN  IF d.status # "IDLE" \/ i = -1
             THEN ReferencePairs(Tail(D), arr, excluded)
             ELSE <<[drone |-> d.socket, survivor |-> i]>>
                     \o ReferencePairs(Tail(D), arr, excluded \cup {i})

\* the drones of a cycle, earliest registered first
RegistrationOrder(D) ==
    [k \in 1..Len(D) |-> CHOOSE d \in {D[j] : j \in 1..Len(D)} : d.id = k - 1]

(* C9: a finished cycle has produced exactly the pairs of the reference rule *)
(* applied to the drones in registration order.                              *)
C9_CycleIsReferenceRule ==
    cycle.done
       => [k \in 1..Len(cycle.pairs) |->
              [drone |-> cycle.pairs[k].drone, survivor |-> cycle.pairs[k].survivor]]
          = ReferencePairs(RegistrationOrder(cycle.start), cycle.survivors, {})

\* the node of the drone registered by connection c
NodeOfSocket(c) == CHOOSE n \in Registered : mem[n].data.socket = c

(* C10: after a cycle that began with two or more idle drones and one        *)
(* waiting survivor, and in which no send failed, an idle drone at the       *)
(* smallest Manhattan distance from the survivor is on the mission and every *)
(* other one of those drones is still IDLE.                                  *)
C10_ClosestDroneAssigned ==
    LET idle == {k \in 1..Len(cycle.start) : cycle.start[k].status = "IDLE"}
        waiting == {i \in SurvivorIndexes(cycle.survivors) :
                       cycle.survivors[i + 1].status = WAITING}
        DistanceOf(k, i) ==
            calculate_distance(cycle.start[k].coord, cycle.survivors[i + 1].coord)
        StatusNow(k) == mem[NodeOfSocket(cycle.start[k].socket)].data.status
    IN  (/\ cycle.done
         /\ Cardinality(idle) >= 2
         /\ Cardinality(waiting) = 1
         /\ \A j \in 1..Len(cycle.pairs) : cycle.pairs[j].ok)
           => \E k \in idle, i \in waiting :
                 /\ \A other \in idle : DistanceOf(k, i) <= DistanceOf(other, i)
                 /\ StatusNow(k) = "ON_MISSION"
                 /\ survivor_array[i + 1].status = BEING_HELPED
                 /\ \A other \in idle \ {k} : StatusNow(other) = "IDLE"

\* the drones idle and the survivors waiting as the cycle started
IdleAtCycleStart == {k \in 1..Len(cycle.start) : cycle.start[k].status = "IDLE"}

WaitingAtCycleStart ==
    {i \in SurvivorIndexes(cycle.survivors) : cycle.survivors[i + 1].status = WAITING}

\* those of them now on a mission
AssignedInCycle ==
    {k \in IdleAtCycleStart :
        mem[NodeOfSocket(cycle.start[k].socket)].data.status = "ON_MISSION"}

(* C11: a finished cycle in which every send succeeded has taken            *)
(* min(idle drones, waiting survivors), counted at its start, drones from    *)
(* IDLE to ON_MISSION.                                                       *)
C11_AssignmentsPerCycle ==
    (cycle.done /\ \A j \in 1..Len(cycle.pairs) : cycle.pairs[j].ok)
       => Cardinality(AssignedInCycle)
             = IF Cardinality(IdleAtCycleStart) <= Cardinality(WaitingAtCycleStart)
               THEN Cardinality(IdleAtCycleStart)
               ELSE Cardinality(WaitingAtCycleStart)

\* a finished cycle with two idle drones, one waiting survivor, one assignment
C11_Witness ==
    /\ cycle.done
    /\ \A j \in 1..Len(cycle.pairs) : cycle.pairs[j].ok
    /\ Cardinality(IdleAtCycleStart) = 2
    /\ Cardinality(WaitingAtCycleStart) = 1
    /\ Cardinality(AssignedInCycle) = 1

(* C12: in every reachable state no two registered drones with status       *)
(* ON_MISSION have the same target.                                          *)
C12_NoSharedTarget ==
    \A n \in Registered, m \in Registered :
       (n # m /\ mem[n].data.status = "ON_MISSION" /\ mem[m].data.status = "ON_MISSION")
          => mem[n].data.target # mem[m].data.target

(* C13: the update of MISSION_COMPLETE with resolved target t changes the    *)
(* lowest-index survivor that is BEING_HELPED at t to RESCUED and nothing    *)
(* else; with no such survivor the array is left as it is.                   *)
C13_CompletionRescuesFirstMatch ==
    [][\A c \in Conns :
          (spc[c] = "mc_update" /\ spc'[c] = "ready")
             => LET matching == HelpedAt(slocal[c].target_coord)
                    first == CHOOSE i \in matching : \A j \in matching : i <= j
                IN  IF matching = {}
                    THEN survivor_array' = survivor_array
                    ELSE survivor_array' =
                            [survivor_array EXCEPT ![first + 1].status = RESCUED]]_vars

\* a completion is about to update with two survivors being helped at its target
C13_Witness ==
    \E c \in Conns :
       /\ spc[c] = "mc_update"
       /\ Cardinality(HelpedAt(slocal[c].target_coord)) = 2

(* C14: wherever a session can receive MISSION_COMPLETE, applying its update *)
(* for a target a second time leaves every survivor's status as the first    *)
(* application left it.                                                      *)
C14_CompletionIdempotent ==
    \A c \in Conns :
       spc[c] = "ready"
          => \A t \in CoordPool \cup {mem[slocal[c].node].data.target} :
                update_drone_status(update_drone_status(survivor_array, t), t)
                   = update_drone_status(survivor_array, t)

(* C15: a survivor goes from BEING_HELPED to RESCUED only in the handling of *)
(* a MISSION_COMPLETE whose target is the target assigned to the drone of    *)
(* the session that received it.                                             *)
C15_RescuedByAssignedDrone ==
    [][\A i \in SurvivorIndexes(survivor_array) :
          (/\ i < Len(survivor_array')
           /\ survivor_array[i + 1].status = BEING_HELPED
           /\ survivor_array'[i + 1].status = RESCUED)
             => \E c \in Conns :
                   /\ spc[c] = "mc_update"
                   /\ spc'[c] = "ready"
                   /\ mem[slocal[c].node].data.target = survivor_array[i + 1].coord]_vars

----------------------------------------------------------------------------
(* handle_drone_client, lines 408-587: the framing of what one recv returned. *)
(* A byte is one of "{", "}", "q" (a double quote), "b" (a backslash), "n"    *)
(* (a newline), or a letter standing for the text of a message between its   *)
(* braces.                                                                   *)

\* what the client may send, and the bytes of each
MessageKinds ==
    {"STATUS_idle", "STATUS_busy", "MISSION_COMPLETE_at", "HEARTBEAT_RESPONSE",
     "HEARTBEAT_note", "UNKNOWN_TYPE", "HANDSHAKE", "garbage", "truncated"}

Encode(kind) ==
    CASE kind = "STATUS_idle"         -> <<"{", "I", "}">>
      [] kind = "STATUS_busy"         -> <<"{", "B", "}">>
      [] kind = "MISSION_COMPLETE_at" -> <<"{", "T", "{", "}", "}">>
      [] kind = "HEARTBEAT_RESPONSE"  -> <<"{", "H", "}">>
      [] kind = "HEARTBEAT_note"      -> <<"{", "H", "q", "}", "b", "q", "q", "}">>
      [] kind = "UNKNOWN_TYPE"        -> <<"{", "U", "}">>
      [] kind = "HANDSHAKE"           -> <<"{", "K", "}">>
      [] kind = "garbage"             -> <<"{", "X", "}">>
      [] kind = "truncated"           -> <<"{", "L", "{", "}">>

\* the kinds that are one complete, well-formed JSON object
WellFormed == MessageKinds \ {"garbage", "truncated"}

\* the target_location of MISSION_COMPLETE_at
CompletionAt == Coord(1, 1)

\* json_tokener_parse of the bytes from json_start to json_end
ParseFailure == "parse_failure"

json_tokener_parse(frame) ==
    IF \E kind \in WellFormed : frame = Encode(kind)
    THEN CHOOSE kind \in WellFormed : frame = Encode(kind)
    ELSE IF frame = <<"{", "}">> THEN "EMPTY_OBJECT"
    ELSE ParseFailure

\* the for loop of lines 418-587 from byte i on: the objects handed to the
\* parser, in order.  Every recv starts it with depth 0, outside any string.
RECURSIVE frames_from(_, _, _, _, _, _, _)
frames_from(buffer, i, json_start, json_depth, in_string, escape_next, found) ==
    IF i > Len(buffer) THEN found
    ELSE IF escape_next
         THEN frames_from(buffer, i + 1, json_start, json_depth, in_string, FALSE, found)
    ELSE IF buffer[i] = "b"
         THEN frames_from(buffer, i + 1, json_start, json_depth, in_string, TRUE, found)
    ELSE IF buffer[i] = "q"
         THEN frames_from(buffer, i + 1, json_start, json_depth, ~in_string, FALSE, found)
    ELSE IF ~in_string /\ buffer[i] = "{"
         THEN frames_from(buffer, i + 1, IF json_depth = 0 THEN i ELSE json_start,
                          json_depth + 1, in_string, FALSE, found)
    ELSE IF ~in_string /\ buffer[i] = "}"
         THEN IF json_depth - 1 = 0
              THEN LET frame == SubSeq(buffer, json_start, i)
                   IN  frames_from(buffer, i + 1,
                                   IF json_tokener_parse(frame) = ParseFailure
                                   THEN json_start ELSE i + 1,
                                   0, in_string, FALSE, Append(found, frame))
              ELSE frames_from(buffer, i + 1, json_start, json_depth - 1, in_string,
                               FALSE, found)
    ELSE frames_from(buffer, i + 1, json_start, json_depth, in_string, FALSE, found)

\* (a variant for comparison: the loop left after its first object)
FramesFirstOnly(buffer) ==
    LET found == frames_from(buffer, 1, 1, 0, FALSE, FALSE, <<>>)
    IN  IF found = <<>> THEN found ELSE <<found[1]>>

Frames(buffer) == frames_from(buffer, 1, 1, 0, FALSE, FALSE, <<>>)


\* the bytes of the messages of sent, each followed by sep
RECURSIVE StreamOf(_, _)
StreamOf(sent, sep) ==
    IF sent = <<>> THEN <<>>
    ELSE Encode(Head(sent)) \o sep \o StreamOf(Tail(sent), sep)

\* the byte counts at which a message of the stream is complete
Boundaries(sent, sep) ==
    {0} \cup {Len(StreamOf(SubSeq(sent, 1, k), sep)) : k \in 1..Len(sent)}
        \cup {Len(StreamOf(SubSeq(sent, 1, k), sep)) - Len(sep) : k \in 1..Len(sent)}

\* line 378: recv returns the next n bytes of the stream; lines 408-418: the
\* scan starts afresh on them
FrRecv ==
    /\ inbound.conn # 0
    /\ spc[inbound.conn] = "ready"
    /\ inbound.pending = <<>>
    /\ inbound.stream # <<>>
    /\ \E n \in 1..Len(inbound.stream) :
          /\ inbound.recvs + 1 < MaxRecvs \/ n = Len(inbound.stream)
          /\ inbound' =
                [inbound EXCEPT
                    !.stream = SubSeq(@, n + 1, Len(@)),
                    !.pending = Frames(SubSeq(inbound.stream, 1, n)),
                    !.recvs = @ + 1,
                    !.aligned = @ /\ (Len(StreamOf(inbound.sent, inbound.sep))
                                         - (Len(inbound.stream) - n))
                                        \in Boundaries(inbound.sent, inbound.sep)]
    /\ UNCHANGED <<drones, mem, survivor_array, survivors_mutex, spc, slocal, ai, wire,
                   registrations, cycle, track, main_pc, gen_pc>>

\* lines 456-584: the next object found by the scan is parsed and dispatched
\* on its type (with no other thread running, its locked sections in one step)
FrHandle ==
    /\ inbound.conn # 0
    /\ inbound.pending # <<>>
    /\ survivors_mutex = NoThread
    /\ LET n == slocal[inbound.conn].node
           msg == json_tokener_parse(Head(inbound.pending))
       IN  /\ DLock(n) = NoThread
           /\ mem' = [mem EXCEPT ![n].data.status =
                         CASE msg = "STATUS_idle" -> "IDLE"
                           [] msg = "STATUS_busy" -> "ON_MISSION"
                           [] msg = "MISSION_COMPLETE_at" -> "IDLE"
                           [] OTHER -> @]
           /\ survivor_array' = IF msg = "MISSION_COMPLETE_at"
                                THEN update_drone_status(survivor_array, CompletionAt)
                                ELSE survivor_array
           /\ inbound' =
                 [inbound EXCEPT
                     !.pending = Tail(@),
                     !.delivered = IF msg = ParseFailure THEN @ ELSE Append(@, msg),
                     !.error_count =
                         IF msg = ParseFailure THEN @ + 1
                         ELSE IF msg = "MISSION_COMPLETE_at" /\ HelpedAt(CompletionAt) = {}
                              THEN @ + 1
                         ELSE @]
    /\ UNCHANGED <<drones, survivors_mutex, spc, slocal, ai, wire, registrations, cycle,
                   track, main_pc, gen_pc>>

\* the streams a client may send: 1..MaxMsgs messages, newline-separated or
\* back to back
ClientStreams == UNION {[1..k -> MessageKinds] : k \in 1..MaxMsgs}

\* one drone on a mission at the survivor it was assigned, its session in
\* READY, and the stream its client is about to send
InitFrame ==
    \E sent \in ClientStreams, sep \in {<<>>, <<"n">>} :
       LET r == RegistryOf(<<HandshakeDrone(1, "ON_MISSION", CompletionAt)>>)
       IN  /\ drones = r.list
           /\ mem = r.mem
           /\ survivor_array = <<[status |-> BEING_HELPED, coord |-> CompletionAt]>>
           /\ survivors_mutex = NoThread
           /\ spc = [c \in Conns |-> IF c = 1 THEN "ready" ELSE "hs_recv"]
           /\ slocal = [c \in Conns |-> IF c = 1 THEN [NoLocals EXCEPT !.node = r.node]
                                        ELSE NoLocals]
           /\ ai = AiIdle
           /\ wire = [c \in Conns |-> <<>>]
           /\ registrations = <<>>
           /\ cycle = NoCycle
           /\ track = {}
           /\ inbound = [NoInbound EXCEPT !.conn = 1, !.sent = sent, !.sep = sep,
                                          !.stream = StreamOf(sent, sep)]
           /\ main_pc = "render"
           /\ gen_pc = "sleep"

NextFrame == FrRecv \/ FrHandle

SpecFrame == InitFrame /\ [][NextFrame]_vars

----------------------------------------------------------------------------
(* Properties of the framing *)

\* the client's stream has been received and handled
StreamDone ==
    inbound.conn # 0 /\ inbound.stream = <<>> /\ inbound.pending = <<>>

IsWellFormed(kind) == kind \in WellFormed

(* C16: however the stream is split across recv calls, once it has been     *)
(* received and handled every complete object the client sent has been       *)
(* delivered to the dispatch exactly once, in order.                         *)
C16_SplitObjectsDelivered ==
    (StreamDone /\ \A k \in 1..Len(inbound.sent) : IsWellFormed(inbound.sent[k]))
       => inbound.delivered = inbound.sent

\* the drone's status after the messages of msgs, handled in order
RECURSIVE StatusAfter(_, _)
StatusAfter(msgs, status) ==
    IF msgs = <<>> THEN status
    ELSE StatusAfter(Tail(msgs),
                     CASE Head(msgs) = "STATUS_idle" -> "IDLE"
                       [] Head(msgs) = "STATUS_busy" -> "ON_MISSION"
                       [] Head(msgs) = "MISSION_COMPLETE_at" -> "IDLE"
                       [] OTHER -> status)

C18_MalformedFrameDropped ==
    (StreamDone /\ inbound.aligned)
       => /\ inbound.delivered = SelectSeq(inbound.sent, IsWellFormed)
          /\ inbound.error_count
                >= Cardinality({k \in 1..(Len(inbound.sent) - 1) :
                                   ~IsWellFormed(inbound.sent[k])})

(* C19: handling a well-formed message whose type is not legal in READY (an  *)
(* unknown type, a HANDSHAKE) increments the error counter and leaves the    *)
(* session's state, the registry and the drone as they are.                  *)
C19_IllegalTypeCounted ==
    [][(/\ inbound.pending # <<>>
        /\ inbound'.pending = Tail(inbound.pending)
        /\ json_tokener_parse(Head(inbound.pending)) \in {"UNKNOWN_TYPE", "HANDSHAKE"})
          => /\ inbound'.error_count = inbound.error_count + 1
             /\ spc' = spc
             /\ drones' = drones
             /\ mem' = mem]_vars

----------------------------------------------------------------------------
(* Connections that register and hang up while the matcher and the generator *)
(* run, with the scheduling the threads get: the matcher keeps running, and  *)
(* a session waiting for the registry lock gets it, as the matcher releases  *)
(* the lock and sleeps a second between cycles (ai.c 424-440).               *)

NextFair ==
    \/ \E c \in Conns : \/ HsRecv(c) \/ HsAdd(c) \/ HsAckSend(c)
                        \/ SessDisconnect(c) \/ SessRemove(c)
    \/ MatcherStep
    \/ SurvivorGenerate

SpecFair ==
    /\ Init
    /\ [][NextFair]_vars
    /\ WF_vars(MatcherStep)
    /\ \A c \in Conns : SF_vars(SessRemove(c))

(* C20: a session whose read has failed sets its drone DISCONNECTED, then    *)
(* removes its node from the registry, once, the registry shrinking by one,  *)
(* and ends; the removal always comes.                                       *)
C20_DisconnectRemovesDrone ==
    /\ [][\A c \in Conns :
             /\ (spc[c] = "ready" /\ spc'[c] # "ready")
                   => /\ spc'[c] = "remove"
                      /\ mem'[slocal[c].node].data.status = "DISCONNECTED"
             /\ (spc[c] = "remove" /\ spc'[c] # "remove")
                   => /\ spc'[c] = "closed"
                      /\ mem[slocal[c].node].occupied = 1
                      /\ mem'[slocal[c].node].occupied = 0
                      /\ drones'.number_of_elements = drones.number_of_elements - 1
                      /\ \A k \in 1..Len(Chain(mem', drones'.head, ListCapacity)) :
                            Chain(mem', drones'.head, ListCapacity)[k] # slocal[c].node
             /\ spc[c] = "closed" => spc'[c] = "closed"]_vars
    /\ \A c \in Conns : (spc[c] = "remove") ~> (spc[c] = "closed")

\* every session has ended and the registry is empty again after a disconnect
C20_Witness ==
    /\ \A c \in Conns : spc[c] = "closed"
    /\ drones.number_of_elements = 0
    /\ \E n \in Nodes : mem[n].occupied = 0 /\ mem[n].data.status = "DISCONNECTED"

----------------------------------------------------------------------------
(* Failed sends *)

\* the send of the step wrote nothing to the socket of connection c
SendFailedOn(c) == wire'[c] = wire[c]

(* C21: a send that fails (of HANDSHAKE_ACK by the session, of               *)
(* ASSIGN_MISSION by the matcher) is handled as a failed read is: the drone  *)
(* of that connection is DISCONNECTED after the step, and the session of a   *)
(* failed HANDSHAKE_ACK goes on to the removal, not to the message loop.     *)
C21_SendFailureDisconnects ==
    [][/\ \A c \in Conns :
             (spc[c] = "hs_ack" /\ spc'[c] # "hs_ack" /\ SendFailedOn(c))
                => /\ spc'[c] \in {"remove", "closed"}
                   /\ mem'[slocal[c].node].data.status = "DISCONNECTED"
       /\ (ai.pc = "am_send" /\ ai'.pc # "am_send"
              /\ SendFailedOn(mem[ai.current].data.socket))
             => mem'[ai.current].data.status = "DISCONNECTED"]_vars

----------------------------------------------------------------------------
(* A registry smaller than the number of connections: create_list given a    *)
(* capacity one below the connections the server accepts, so that a          *)
(* handshake can meet a full registry.  The threads and their scheduling are *)
(* those of the fair specification; a session waiting in add (sem_wait, then *)
(* the registry lock) gets the lock as the session removing its node does.   *)

SmallCapacity == NumConns - 1

InitCapacity ==
    /\ drones = create_list(SmallCapacity)
    /\ mem = create_list_mem(SmallCapacity)
    /\ survivor_array = <<>>
    /\ survivors_mutex = NoThread
    /\ spc = [c \in Conns |-> "hs_recv"]
    /\ slocal = [c \in Conns |-> NoLocals]
    /\ ai = AiIdle
    /\ wire = [c \in Conns |-> <<>>]
    /\ registrations = <<>>
    /\ cycle = NoCycle
    /\ track = {}
    /\ inbound = NoInbound
    /\ main_pc = "render"
    /\ gen_pc = "sleep"

SpecCapacity ==
    /\ InitCapacity
    /\ [][NextFair]_vars
    /\ WF_vars(MatcherStep)
    /\ \A c \in Conns : SF_vars(SessRemove(c)) /\ SF_vars(HsAdd(c))

\* the registry holds its configured maximum
RegistryFull == drones.number_of_elements >= drones.capacity

(* C22: a session whose handshake finds the registry full does not wait for  *)
(* space: its next step closes the connection with the registry as it was,   *)
(* and that step always comes (the session terminates).                      *)
C22_FullRegistryRejects ==
    /\ [][\A c \in Conns :
             (spc[c] = "hs_add" /\ RegistryFull /\ spc'[c] # "hs_add")
                => /\ spc'[c] = "closed"
                   /\ drones' = drones
                   /\ mem' = mem]_vars
    /\ \A c \in Conns : (spc[c] = "hs_add" /\ RegistryFull) ~> (spc[c] = "closed")

----------------------------------------------------------------------------
(* The handshake: the sessions alone, with what each first recv returned and *)
(* every byte written to the sockets.                                        *)

InitHandshake == InitWith({"first", "wire"})

NextHandshake == \E c \in Conns : SessionStep(c) \/ HsAckRest(c)

SpecHandshake == InitHandshake /\ [][NextHandshake]_vars

\* first recvs that are not a HANDSHAKE
FailedHandshakes == FirstMessages \ {"HANDSHAKE"}

(* C23: when the first recv of a connection returns EOF, something that does *)
(* not parse, or a message whose type is not HANDSHAKE, that step closes the *)
(* connection and changes neither the registry nor any byte stream; the      *)
(* connection stays closed, with nothing written to its socket and no drone  *)
(* of the registry on its socket.                                            *)
C23_FailedHandshakeCloses ==
    /\ [][\A c \in Conns :
             (spc[c] = "hs_recv" /\ spc'[c] # "hs_recv"
                 /\ slocal'[c].first \in FailedHandshakes)
                => /\ spc'[c] = "closed"
                   /\ drones' = drones
                   /\ mem' = mem
                   /\ wire' = wire]_vars
    /\ [](\A c \in Conns :
             slocal[c].first \in FailedHandshakes
                => /\ spc[c] = "closed"
                   /\ wire[c] = <<>>
                   /\ \A n \in Registered : mem[n].data.socket # c)

\* a connection whose first message was not a HANDSHAKE has been closed while
\* the other one's drone is registered
C23_Witness ==
    \E c \in Conns :
       /\ slocal[c].first = "not_handshake"
       /\ spc[c] = "closed"
       /\ drones.number_of_elements = 1

----------------------------------------------------------------------------
(* The list on its own: list.c driven by one caller, as tests/listtest.c     *)
(* drives it, with any sequence of add, pop, removedata and removenode on a  *)
(* list of TestCapacity nodes.  removenode is given nodes that are in the    *)
(* list.                                                                     *)

\* capacity given to create_list (100 in listtest.c)
TestCapacity == 3
\* the value of elements_sem up to which elements are added
MaxPosts == 4

\* what the caller stores
ListData == {[ZeroDrone EXCEPT !.id = v] : v \in {1, 2}}

\* the nodes reached from the tail by prev, in order (at most k of them)
RECURSIVE ChainBack(_, _, _)
ChainBack(M, n, k) ==
    IF n = NULL \/ k = 0 THEN <<>> ELSE <<n>> \o ChainBack(M, M[n].prev, k - 1)



\* pop, after sem_wait(elements_sem) has returned and with the list locked
pop(L, M) ==
    IF L.head # NULL
    THEN LET node == L.head
             newhead == M[node].next
             M1 == IF newhead # NULL THEN [M EXCEPT ![newhead].prev = NULL] ELSE M
             M2 == [M1 EXCEPT ![node].next = L.free_list, ![node].prev = NULL]
             M3 == IF L.free_list # NULL THEN [M2 EXCEPT ![L.free_list].prev = node] ELSE M2
             M4 == [M3 EXCEPT ![node].occupied = 0]
             L1 == [L EXCEPT
                       !.head = newhead,
                       !.tail = IF newhead = NULL THEN NULL ELSE @,
                       !.free_list = node,
                       !.number_of_elements = @ - 1,
                       !.lastprocessed = node,
                       !.spaces_sem = @ + 1,
                       !.elements_sem = @ - 1]
         IN  [result |-> <<M[node].data>>, list |-> L1, mem |-> M4]
    ELSE [result |-> <<>>, list |-> L, mem |-> M]

\* removedata, with the list locked: the first node from the head whose data
\* equals data
removedata(L, M, data) ==
    LET ch == Chain(M, L.head, L.capacity)
        hits == {k \in 1..Len(ch) : M[ch[k]].data = data}
    IN  IF hits = {}
        THEN [result |-> 1, list |-> L, mem |-> M]
        ELSE LET temp == ch[CHOOSE k \in hits : \A j \in hits : k <= j]
                 prevnode == M[temp].prev
                 nextnode == M[temp].next
                 M1 == IF prevnode # NULL THEN [M EXCEPT ![prevnode].next = nextnode] ELSE M
                 M2 == IF nextnode # NULL THEN [M1 EXCEPT ![nextnode].prev = prevnode] ELSE M1
                 M3 == [M2 EXCEPT ![temp].next = L.free_list, ![temp].prev = NULL]
                 M4 == IF L.free_list # NULL THEN [M3 EXCEPT ![L.free_list].prev = temp] ELSE M3
                 M5 == [M4 EXCEPT ![temp].occupied = 0]
                 L1 == [L EXCEPT
                           !.head = IF temp = @ THEN nextnode ELSE @,
                           !.tail = IF temp = @ THEN prevnode ELSE @,
                           !.free_list = temp,
                           !.number_of_elements = @ - 1,
                           !.lastprocessed = temp,
                           !.spaces_sem = @ + 1]
             IN  [result |-> 0, list |-> L1, mem |-> M5]

ListAdd ==
    /\ drones.spaces_sem > 0
    /\ drones.elements_sem < MaxPosts
    /\ \E data \in ListData :
          LET r == add(drones, mem, data)
          IN  drones' = r.list /\ mem' = r.mem
    /\ UNCHANGED <<survivor_array, survivors_mutex, spc, slocal, ai, wire, registrations,
                   cycle, track, inbound, main_pc, gen_pc>>

ListPop ==
    /\ drones.elements_sem > 0
    /\ LET r == pop(drones, mem)
       IN  drones' = r.list /\ mem' = r.mem
    /\ UNCHANGED <<survivor_array, survivors_mutex, spc, slocal, ai, wire, registrations,
                   cycle, track, inbound, main_pc, gen_pc>>

ListRemoveData ==
    /\ \E data \in ListData :
          LET r == removedata(drones, mem, data)
          IN  drones' = r.list /\ mem' = r.mem
    /\ UNCHANGED <<survivor_array, survivors_mutex, spc, slocal, ai, wire, registrations,
                   cycle, track, inbound, main_pc, gen_pc>>

\* the nodes in the list
InList == {n \in DOMAIN mem : \E k \in 1..Len(Chain(mem, drones.head, drones.capacity)) :
                                 Chain(mem, drones.head, drones.capacity)[k] = n}

ListRemoveNode ==
    /\ \E node \in InList :
          LET r == removenode(drones, mem, node)
          IN  drones' = r.list /\ mem' = r.mem
    /\ UNCHANGED <<survivor_array, survivors_mutex, spc, slocal, ai, wire, registrations,
                   cycle, track, inbound, main_pc, gen_pc>>

InitList ==
    /\ drones = create_list(TestCapacity)
    /\ mem = create_list_mem(TestCapacity)
    /\ survivor_array = <<>>
    /\ survivors_mutex = NoThread
    /\ spc = [c \in Conns |-> "closed"]
    /\ slocal = [c \in Conns |-> NoLocals]
    /\ ai = AiIdle
    /\ wire = [c \in Conns |-> <<>>]
    /\ registrations = <<>>
    /\ cycle = NoCycle
    /\ track = {}
    /\ inbound = NoInbound
    /\ main_pc = "render"
    /\ gen_pc = "sleep"

NextList == ListAdd \/ ListPop \/ ListRemoveData \/ ListRemoveNode

SpecList == InitList /\ [][NextList]_vars

\* what the claims about the list compare: the List struct and the links and
\* occupancy of every node
ListShape(L, M) ==
    [head |-> L.head, tail |-> L.tail, number_of_elements |-> L.number_of_elements,
     free_list |-> L.free_list, spaces_sem |-> L.spaces_sem,
     links |-> [n \in DOMAIN M |-> <<M[n].prev, M[n].next, M[n].occupied>>]]

(* C24: removenode called a second time with the same handle leaves the list *)
(* (head, tail, number_of_elements, the free list, the free-space count and  *)
(* every link) as the first call left it, for every node of every list.      *)
C24_RemoveIdempotent ==
    \A node \in InList :
       LET once == removenode(drones, mem, node)
           twice == removenode(once.list, once.mem, node)
       IN  ListShape(twice.list, twice.mem) = ListShape(once.list, once.mem)

\* a sequence in reverse
Reverse(s) == [k \in 1..Len(s) |-> s[Len(s) + 1 - k]]

(* C25: after any sequence of add, pop, removedata and removenode (of nodes  *)
(* in the list) the chain from the head by next has no node twice and        *)
(* exactly number_of_elements nodes, 0 <= number_of_elements <= capacity,    *)
(* and the chain from the tail by prev is the same nodes in reverse order.   *)
C25_ChainWellFormed ==
    LET forward == Chain(mem, drones.head, drones.capacity + 1)
        backward == ChainBack(mem, drones.tail, drones.capacity + 1)
    IN  /\ \A j \in 1..Len(forward), k \in 1..Len(forward) :
              j # k => forward[j] # forward[k]
        /\ Len(forward) = drones.number_of_elements
        /\ 0 <= drones.number_of_elements
        /\ drones.number_of_elements <= drones.capacity
        /\ backward = Reverse(forward)

\* a full list after its middle node was removed and added again, at the head
C25_Witness ==
    /\ drones.number_of_elements = drones.capacity
    /\ Chain(mem, drones.head, drones.capacity) = <<2, 1, 3>>
    /\ drones.elements_sem > drones.number_of_elements

----------------------------------------------------------------------------
(* Missions over the life of the process: the first connection has          *)
(* registered an idle drone and received its HANDSHAKE_ACK; the drone        *)
(* completes missions while the matcher, the generator and the statistics    *)
(* pass run, with every byte written to its socket followed.                 *)

InitMissions ==
    LET r == RegistryOf(<<HandshakeDrone(1, "IDLE", Coord(0, 0))>>)
    IN  /\ drones = r.list
        /\ mem = r.mem
        /\ survivor_array = <<>>
        /\ survivors_mutex = NoThread
        /\ spc = [c \in Conns |-> IF c = 1 THEN "ready" ELSE "hs_recv"]
        /\ slocal = [c \in Conns |-> IF c = 1 THEN [NoLocals EXCEPT !.node = r.node]
                                     ELSE NoLocals]
        /\ ai = AiIdle
        /\ wire = [c \in Conns |->
                     IF c = 1
                     THEN <<Chunk("HANDSHAKE_ACK", 0, 1), Chunk("HANDSHAKE_ACK", 0, 2)>>
                     ELSE <<>>]
        /\ registrations = <<>>
        /\ cycle = NoCycle
        /\ track = {"wire"}
        /\ inbound = NoInbound
        /\ main_pc = "render"
        /\ gen_pc = "sleep"

NextMissions ==
    \/ \E c \in Conns : SessMissionComplete(c) \/ SessMissionIdle(c) \/ SessMissionUpdate(c)
    \/ MatcherStep
    \/ AmSendRest
    \/ SurvivorGenerate
    \/ UpdateSimulationStats

SpecMissions == InitMissions /\ [][NextMissions]_vars

\* the ASSIGN_MISSION messages in the byte streams, by socket and position of
\* their first chunk; the mission_id of one ("M" and the survivor's index)
MissionsSent ==
    {<<c, k>> \in Conns \X (1..WireWindow) :
        /\ k <= Len(wire[c])
        /\ wire[c][k].type = "ASSIGN_MISSION"
        /\ wire[c][k].part = 1}

mission_id(m) == wire[m[1]][m[2]].id

(* C26: no two ASSIGN_MISSION messages written to the sockets carry the same *)
(* mission_id.                                                               *)
C26_MissionIdsUnique ==
    \A m1 \in MissionsSent, m2 \in MissionsSent :
       m1 # m2 => mission_id(m1) # mission_id(m2)

----------------------------------------------------------------------------
(* The edges of the map: the sessions alone, with drones that report the     *)
(* corners of the map and coordinates just outside it.                       *)

InitEdges == InitWith({"edges"})

SpecEdges == InitEdges /\ [][NextIds]_vars

\* inside the grid: 0 <= x < height, 0 <= y < width
InsideMap(xy) == 0 <= xy.x /\ xy.x < MapHeight /\ 0 <= xy.y /\ xy.y < MapWidth

(* C27: in every reachable state the coord of every registered drone lies    *)
(* inside the map, whatever coordinates HANDSHAKE and STATUS_UPDATE carried. *)
C27_DroneCoordsInsideMap ==
    \A n \in Registered : InsideMap(mem[n].data.coord)

----------------------------------------------------------------------------
(* Sessions message by message: handle_drone_client as a function from the   *)
(* world and one message of one connection to the world after the message    *)
(* has been handled, with no other thread running in between.                *)

\* what a client sends, or does: "status" and "coord" are the optional
\* members of the message (coord is "coord", "location" or "target_location")
ClientMessages ==
    [type : {"HANDSHAKE"}, status : {<<"IDLE">>, <<"ON_MISSION">>}, coord : CoordInputs]
       \cup [type : {"STATUS_UPDATE"}, status : {<<>>, <<"idle">>, <<"busy">>},
             coord : CoordInputs]
       \cup [type : {"MISSION_COMPLETE"}, status : {<<>>}, coord : CoordInputs]
       \cup [type : {"DISCONNECT"}, status : {<<>>}, coord : {<<>>}]

\* the shared data and the sessions' positions and locals
World == [drones |-> drones, mem |-> mem, survivor_array |-> survivor_array,
          spc |-> spc, slocal |-> slocal]

\* lines 212-371: the first message of connection c
Handshake(w, c, msg) ==
    IF msg.type # "HANDSHAKE"
    THEN [w EXCEPT !.spc[c] = "closed"]
    ELSE LET xy == IF msg.coord = <<>> THEN Coord(0, 0) ELSE msg.coord[1]
             drone == [ZeroDrone EXCEPT
                          !.id = w.drones.number_of_elements,
                          !.status = IF msg.status = <<"ON_MISSION">> THEN "ON_MISSION"
                                     ELSE "IDLE",
                          !.coord = xy, !.target = xy, !.socket = c]
             r == add(w.drones, w.mem, drone)
         IN  IF r.node = NULL
             THEN [w EXCEPT !.spc[c] = "closed"]
             ELSE [w EXCEPT !.drones = r.list, !.mem = r.mem, !.spc[c] = "ready",
                            !.slocal[c].node = r.node]

\* lines 374-587: a message of connection c in the message loop, or the end
\* of its stream
Dispatch(w, c, msg) ==
    LET n == w.slocal[c].node
    IN  CASE msg.type = "STATUS_UPDATE" ->
                [w EXCEPT
                    !.mem[n].data.coord = IF msg.coord = <<>> THEN @ ELSE msg.coord[1],
                    !.mem[n].data.status = IF msg.status = <<"idle">> THEN "IDLE"
                                           ELSE IF msg.status = <<"busy">> THEN "ON_MISSION"
                                           ELSE @]
          [] msg.type = "MISSION_COMPLETE" ->
                [w EXCEPT
                    !.mem[n].data.status = "IDLE",
                    !.survivor_array =
                        update_drone_status(@, IF msg.coord = <<>>
                                               THEN w.mem[n].data.target
                                               ELSE msg.coord[1])]
          [] msg.type = "DISCONNECT" ->
                LET r == removenode(w.drones,
                                    [w.mem EXCEPT ![n].data.status = "DISCONNECTED"], n)
                IN  [w EXCEPT !.drones = r.list, !.mem = r.mem, !.spc[c] = "closed",
                              !.slocal[c].node = NULL]
          [] OTHER -> w

\* connection c can be given msg: its session is reading, and add would not wait
Deliverable(w, c, msg) ==
    \/ w.spc[c] = "ready"
    \/ w.spc[c] = "hs_recv" /\ (msg.type = "HANDSHAKE" => w.drones.spaces_sem > 0)

Deliver(w, c, msg) ==
    IF w.spc[c] = "hs_recv" THEN Handshake(w, c, msg) ELSE Dispatch(w, c, msg)

DeliverMessage(c) ==
    /\ \E msg \in ClientMessages :
          /\ Deliverable(World, c, msg)
          /\ LET w == Deliver(World, c, msg)
             IN  /\ drones' = w.drones
                 /\ mem' = w.mem
                 /\ survivor_array' = w.survivor_array
                 /\ spc' = w.spc
                 /\ slocal' = w.slocal
    /\ UNCHANGED <<survivors_mutex, ai, wire, registrations, cycle, track, inbound, main_pc, gen_pc>>

\* the survivors as earlier missions may have left them
MessageSurvivors ==
    UNION {[1..n -> [status : {WAITING, BEING_HELPED, RESCUED}, coord : CoordPool]] :
              n \in 0..MaxSurvivors}

InitMessages ==
    \E arr \in MessageSurvivors :
       /\ drones = create_list(ListCapacity)
       /\ mem = create_list_mem(ListCapacity)
       /\ survivor_array = arr
       /\ survivors_mutex = NoThread
       /\ spc = [c \in Conns |-> "hs_recv"]
       /\ slocal = [c \in Conns |-> NoLocals]
       /\ ai = AiIdle
       /\ wire = [c \in Conns |-> <<>>]
       /\ registrations = <<>>
       /\ cycle = NoCycle
       /\ track = {}
       /\ inbound = NoInbound
       /\ main_pc = "render"
       /\ gen_pc = "sleep"

NextMessages == \E c \in Conns : DeliverMessage(c)

SpecMessages == InitMessages /\ [][NextMessages]_vars

\* the world state the sessions' order must not change: every registered
\* drone, by the connection it belongs to, and every survivor's status
WorldState(w) ==
    [drones |-> {[socket |-> w.mem[n].data.socket, id |-> w.mem[n].data.id,
                  status |-> w.mem[n].data.status, coord |-> w.mem[n].data.coord,
                  target |-> w.mem[n].data.target] :
                    n \in {m \in DOMAIN w.mem : w.mem[m].occupied = 1}},
     survivors |-> [k \in 1..Len(w.survivor_array) |-> w.survivor_array[k].status]]

(* C28: from every reachable world, a message of one connection and a        *)
(* message of another handled in either order leave the same world state     *)
(* (drone ids, statuses, coords, targets, survivor statuses), so that any    *)
(* two interleavings of the same per-session sequences end in the same one.  *)
C28_SessionsCommute ==
    \A c1 \in Conns, c2 \in Conns, m1 \in ClientMessages, m2 \in ClientMessages :
       (c1 # c2 /\ Deliverable(World, c1, m1) /\ Deliverable(World, c2, m2)
           /\ Deliverable(Deliver(World, c1, m1), c2, m2)
           /\ Deliverable(Deliver(World, c2, m2), c1, m1))
          => WorldState(Deliver(Deliver(World, c1, m1), c2, m2))
                = WorldState(Deliver(Deliver(World, c2, m2), c1, m1))

----------------------------------------------------------------------------
(* The matcher's retries: the threads of the fair specification, with sends  *)
(* that do not fail forever: whenever the matcher keeps sending, a send goes *)
(* through.                                                                  *)

\* the send of assign_mission returning > 0 (ai.c 135-150)
AmSendDelivered ==
    AmSend /\ mem'[ai.current].data.status = "ON_MISSION"

SpecRetry ==
    /\ Init
    /\ [][NextFair]_vars
    /\ WF_vars(MatcherStep)
    /\ SF_vars(AmSendDelivered)
    /\ \A c \in Conns : SF_vars(SessRemove(c))

\* node n holds a connected drone without a mission while a survivor waits
\* for one: the drone is IDLE and a survivor WAITING, or the matcher has
\* written a mission for the drone and not yet sent it (it may be undone)
WithoutMission(n) ==
    /\ mem[n].occupied = 1
    /\ \/ /\ mem[n].data.status = "IDLE"
          /\ \E i \in SurvivorIndexes(survivor_array) :
                survivor_array[i + 1].status = WAITING
       \/ ai.pc = "am_send" /\ ai.current = n

----------------------------------------------------------------------------
(* Shutdown: main() leaves its render loop, cancels and joins the matcher    *)
(* (wherever it is) and the generator, destroys the lists, frees the         *)
(* survivors and returns, while the sessions of the accepted connections run *)
(* on: the listener and the session threads are neither cancelled nor joined *)
(* (the sessions are detached, drone.c 182).  A thread that touches freed    *)
(* memory goes on with what it finds there or brings the process down.       *)

\* the registry or the survivors have been destroyed
TornDown == main_pc \in {"lists_destroyed", "survivors_freed"}

\* controller.c 336: pthread_cancel(ai_thread), wherever the matcher is.  The
\* matcher never changes its cancelability: the request is deferred until it
\* reaches a cancellation point
MainCancelAi ==
    /\ main_pc = "render"
    /\ main_pc' = "ai_cancel_sent"
    /\ UNCHANGED <<drones, mem, survivor_array, survivors_mutex, spc, slocal, ai, wire,
                   registrations, cycle, track, inbound, gen_pc>>

\* the matcher's cancellation points: sleep(1) (ai.c 440), send (ai.c 132) and
\* the printf or perror that follows the send (ai.c 143-151)
CancellationPoints == {"sleep", "am_send", "am_unlock"}

\* the matcher acts on the request: it ends where it is, with no cleanup
\* handler installed, so with every mutex it holds still locked
AiCancelled ==
    /\ main_pc = "ai_cancel_sent"
    /\ ai.pc \in CancellationPoints
    /\ ai' = [ai EXCEPT !.pc = "cancelled"]
    /\ UNCHANGED <<drones, mem, survivor_array, survivors_mutex, spc, slocal, wire,
                   registrations, cycle, track, inbound, main_pc, gen_pc>>

\* a step of the matcher that has not ended: with a request pending it does
\* not get past sleep or into send, which act on the request; printf may
MatcherRuns ==
    /\ main_pc = "ai_cancel_sent" => ai.pc \notin {"sleep", "am_send"}
    /\ MatcherStep

\* controller.c 337: pthread_join(ai_thread, NULL) returns
MainJoinAi ==
    /\ main_pc = "ai_cancel_sent"
    /\ ai.pc = "cancelled"
    /\ main_pc' = "ai_joined"
    /\ UNCHANGED <<drones, mem, survivor_array, survivors_mutex, spc, slocal, ai, wire,
                   registrations, cycle, track, inbound, gen_pc>>

\* controller.c 339: pthread_cancel(survivor_thread)
MainCancelGenerator ==
    /\ main_pc = "ai_joined"
    /\ main_pc' = "generator_cancel_sent"
    /\ UNCHANGED <<drones, mem, survivor_array, survivors_mutex, spc, slocal, ai, wire,
                   registrations, cycle, track, inbound, gen_pc>>

\* the generator acts on the request in its usleep (survivor.c 170), its only
\* cancellation point: pthread_mutex_lock is none
GenCancelled ==
    /\ main_pc = "generator_cancel_sent"
    /\ gen_pc = "sleep"
    /\ gen_pc' = "cancelled"
    /\ UNCHANGED <<drones, mem, survivor_array, survivors_mutex, spc, slocal, ai, wire,
                   registrations, cycle, track, inbound, main_pc>>

\* controller.c 340: pthread_join(survivor_thread, NULL) returns
MainJoinGenerator ==
    /\ main_pc = "generator_cancel_sent"
    /\ gen_pc = "cancelled"
    /\ main_pc' = "generator_joined"
    /\ UNCHANGED <<drones, mem, survivor_array, survivors_mutex, spc, slocal, ai, wire,
                   registrations, cycle, track, inbound, gen_pc>>

\* controller.c 343, cleanup_resources: drones->destroy(drones) frees the node
\* array and the List; what they held stays where it was
MainCleanupResources ==
    /\ main_pc = "generator_joined"
    /\ main_pc' = "lists_destroyed"
    /\ UNCHANGED <<drones, mem, survivor_array, survivors_mutex, spc, slocal, ai, wire,
                   registrations, cycle, track, inbound, gen_pc>>

\* controller.c 344, cleanup_survivors: survivor_array freed and set to NULL,
\* num_survivors = 0
MainCleanupSurvivors ==
    /\ main_pc = "lists_destroyed"
    /\ main_pc' = "survivors_freed"
    /\ survivor_array' = <<>>
    /\ UNCHANGED <<drones, mem, survivors_mutex, spc, slocal, ai, wire,
                   registrations, cycle, track, inbound, gen_pc>>

\* controller.c 346-352: return from main ends the process and its threads
MainReturn ==
    /\ main_pc = "survivors_freed"
    /\ main_pc' = "returned"
    /\ UNCHANGED <<drones, mem, survivor_array, survivors_mutex, spc, slocal, ai, wire,
                   registrations, cycle, track, inbound, gen_pc>>

\* a session about to touch the registry or the survivors
AboutToAccess(c) == spc[c] \in {"hs_add", "ready", "remove", "mc_idle", "mc_update"}

\* a session's access to freed memory that ends the process
SessFault(c) ==
    /\ TornDown
    /\ AboutToAccess(c)
    /\ main_pc' = "fault"
    /\ UNCHANGED <<drones, mem, survivor_array, survivors_mutex, spc, slocal, ai, wire,
                   registrations, cycle, track, inbound, gen_pc>>

\* the process is alive
Alive == main_pc \notin {"returned", "fault"}

NextShutdown ==
    \/ \E c \in Conns :
          /\ Alive
          /\ \/ HsRecv(c) \/ HsAdd(c) \/ HsAckSend(c)
             \/ SessMissionComplete(c) \/ SessMissionIdle(c) \/ SessMissionUpdate(c)
             \/ SessDisconnect(c) \/ SessRemove(c)
    \/ \E c \in Conns : SessFault(c)
    \/ MatcherRuns
    \/ AiCancelled
    \/ main_pc \in {"render", "ai_cancel_sent", "ai_joined"} /\ SurvivorGenerate
    \/ MainCancelAi
    \/ MainJoinAi
    \/ MainCancelGenerator
    \/ GenCancelled
    \/ MainJoinGenerator
    \/ MainCleanupResources
    \/ MainCleanupSurvivors
    \/ MainReturn

SpecShutdown == Init /\ [][NextShutdown]_vars

\* a step of session c that reads or writes the registry or the survivors:
\* every step that moves the session on, but the rejection of a first message
\* and the send of HANDSHAKE_ACK
SessionAccess(c) ==
    /\ spc'[c] # spc[c]
    /\ ~(spc[c] = "hs_recv" /\ spc'[c] = "closed")
    /\ spc[c] # "hs_ack"

(* C30: no session step reads or writes the registry or the survivor array   *)
(* once main() has destroyed them.                                           *)
C30_TeardownLast ==
    [][\A c \in Conns : SessionAccess(c) => ~TornDown]_vars

\* the matcher holds none of the registry lock, a drone lock, the survivor lock
AiHoldsNoLock ==
    /\ drones.lock # AiThread
    /\ survivors_mutex # AiThread
    /\ \A n \in Nodes : DLock(n) # AiThread

(* C31: the step in which the matcher ends on the main thread's request      *)
(* finds it between two cycles (in its sleep), holding no lock, so with no   *)
(* assignment begun and not finished.                                        *)
C31_CancelledAtBoundary ==
    [][(ai.pc # "cancelled" /\ ai'.pc = "cancelled") => (ai.pc = "sleep" /\ AiHoldsNoLock)]_vars

----------------------------------------------------------------------------
(* The rollback of a failed send: one registered idle drone whose session    *)
(* reports and completes, the matcher (whose every send may fail), the       *)
(* generator and the statistics pass, with the history of each cycle kept.   *)

InitRollback ==
    LET r == RegistryOf(<<HandshakeDrone(1, "IDLE", Coord(0, 0))>>)
    IN  /\ drones = r.list
        /\ mem = r.mem
        /\ survivor_array = <<>>
        /\ survivors_mutex = NoThread
        /\ spc = [c \in Conns |-> IF c = 1 THEN "ready" ELSE "hs_recv"]
        /\ slocal = [c \in Conns |-> IF c = 1 THEN [NoLocals EXCEPT !.node = r.node]
                                     ELSE NoLocals]
        /\ ai = AiIdle
        /\ wire = [c \in Conns |-> <<>>]
        /\ registrations = <<>>
        /\ cycle = NoCycle
        /\ track = {"cycle"}
        /\ inbound = NoInbound
        /\ main_pc = "render"
        /\ gen_pc = "sleep"

NextRollback ==
    \/ \E c \in Conns : \/ SessStatusUpdate(c)
                        \/ SessMissionComplete(c) \/ SessMissionIdle(c) \/ SessMissionUpdate(c)
    \/ MatcherStep
    \/ SurvivorGenerate
    \/ UpdateSimulationStats

SpecRollback == InitRollback /\ [][NextRollback]_vars

\* the last pairing of the cycle was a send that failed
LastSendFailed ==
    /\ cycle.pairs # <<>>
    /\ ~cycle.pairs[Len(cycle.pairs)].ok

\* the step is a send of ASSIGN_MISSION that fails
SendFailsNow ==
    /\ ai.pc = "am_send"
    /\ Len(cycle'.pairs) = Len(cycle.pairs) + 1
    /\ ~cycle'.pairs[Len(cycle'.pairs)].ok

\* the steps of the other threads that read or write the status of the
\* matcher's current drone or of a survivor
StatusAccessEnabled ==
    \/ \E c \in Conns : /\ spc[c] \in {"ready", "mc_idle"}
                        /\ slocal[c].node = ai.current
                        /\ \/ ENABLED SessStatusUpdate(c)
                           \/ ENABLED SessMissionIdle(c)
    \/ \E c \in Conns : ENABLED SessMissionUpdate(c)
    \/ ENABLED SurvivorGenerate
    \/ ENABLED UpdateSimulationStats

(* C32: the step of a failing ASSIGN_MISSION send leaves the drone IDLE and  *)
(* the survivor WAITING with the drone's lock and the survivors' lock still  *)
(* held; and from the writes of the transaction to the unlock no other       *)
(* thread can take a step that reads a status of that drone or of a          *)
(* survivor.                                                                 *)
C32_RollbackUnderLocks ==
    /\ [][SendFailsNow =>
             /\ mem'[ai.current].data.status = "IDLE"
             /\ survivor_array'[ai.survivor_index + 1].status = WAITING
             /\ DLock(ai.current)' = AiThread
             /\ survivors_mutex' = AiThread]_vars
    /\ [](ai.pc \in {"am_send", "am_unlock"} => ~StatusAccessEnabled)

\* a failed send has been rolled back, the locks not yet released
C32_Witness ==
    /\ ai.pc = "am_unlock"
    /\ LastSendFailed
    /\ mem[ai.current].data.status = "IDLE"
    /\ survivor_array[ai.survivor_index + 1].status = WAITING
    /\ survivors_mutex = AiThread

----------------------------------------------------------------------------
(* The locks, acquisition by acquisition: two registered drones whose        *)
(* sessions take d->lock, survivors_mutex and the registry lock as the       *)
(* message loop does; the matcher; the statistics pass of the render loop    *)
(* (draw_drones takes the same locks in the same order); the generator; and  *)
(* main() ending the render loop and cancelling the matcher and the          *)
(* generator.  A thread takes a step when the mutex it asks for is free.     *)

InitLocks ==
    LET r == RegistryOf([k \in 1..NumConns |-> HandshakeDrone(k, "IDLE", Coord(0, 0))])
        NodeOf(c) == CHOOSE n \in Nodes : r.mem[n].occupied = 1 /\ r.mem[n].data.socket = c
    IN  /\ drones = r.list
        /\ mem = r.mem
        /\ survivor_array = <<>>
        /\ survivors_mutex = NoThread
        /\ spc = [c \in Conns |-> "ready"]
        /\ slocal = [c \in Conns |-> [NoLocals EXCEPT !.node = NodeOf(c)]]
        /\ ai = AiIdle
        /\ wire = [c \in Conns |-> <<>>]
        /\ registrations = <<>>
        /\ cycle = NoCycle
        /\ track = {}
        /\ inbound = NoInbound
        /\ main_pc = "render"
        /\ gen_pc = "sleep"

\* drone.c 390, 482, 551, 567: pthread_mutex_lock(&d->lock)
SessLockDrone(c) ==
    /\ spc[c] = "ready"
    /\ DLock(slocal[c].node) = NoThread
    /\ mem' = [mem EXCEPT ![slocal[c].node].data.lock = Session(c)]
    /\ spc' = [spc EXCEPT ![c] = "d_locked"]
    /\ UNCHANGED <<drones, survivor_array, survivors_mutex, slocal, ai, wire,
                   registrations, cycle, track, inbound, main_pc, gen_pc>>

\* the handlers that take d->lock: HEARTBEAT_RESPONSE and STATUS_UPDATE,
\* MISSION_COMPLETE, the failed recv
LockedHandlers == {"heartbeat", "complete", "disconnect"}

\* drone.c 392, 520, 553, 570: the write under the lock, then
\* pthread_mutex_unlock(&d->lock)
SessUnlockDrone(c) ==
    /\ spc[c] = "d_locked"
    /\ \E h \in LockedHandlers :
          LET n == slocal[c].node
          IN  /\ mem' = [mem EXCEPT ![n].data.lock = NoThread,
                                    ![n].data.status = CASE h = "complete" -> "IDLE"
                                                         [] h = "disconnect" -> "DISCONNECTED"
                                                         [] OTHER -> @]
              /\ spc' = [spc EXCEPT ![c] = CASE h = "complete" -> "mc_update"
                                             [] h = "disconnect" -> "remove"
                                             [] OTHER -> "ready"]
              /\ slocal' = [slocal EXCEPT ![c].target_coord =
                               IF h = "complete" THEN mem[n].data.target ELSE @]
    /\ UNCHANGED <<drones, survivor_array, survivors_mutex, ai, wire,
                   registrations, cycle, track, inbound, main_pc, gen_pc>>

\* update_drone_status, drone.c 617: pthread_mutex_lock(&survivors_mutex)
SessLockSurvivors(c) ==
    /\ spc[c] = "mc_update"
    /\ survivors_mutex = NoThread
    /\ survivors_mutex' = Session(c)
    /\ spc' = [spc EXCEPT ![c] = "s_locked"]
    /\ UNCHANGED <<drones, mem, survivor_array, slocal, ai, wire,
                   registrations, cycle, track, inbound, main_pc, gen_pc>>

\* update_drone_status, drone.c 619-638: the pass and the unlock
SessUnlockSurvivors(c) ==
    /\ spc[c] = "s_locked"
    /\ survivor_array' = update_drone_status(survivor_array, slocal[c].target_coord)
    /\ survivors_mutex' = NoThread
    /\ slocal' = [slocal EXCEPT ![c].target_coord = Coord(0, 0)]
    /\ spc' = [spc EXCEPT ![c] = "ready"]
    /\ UNCHANGED <<drones, mem, ai, wire, registrations, cycle, track, inbound, main_pc, gen_pc>>

\* removenode, list.c 490: pthread_mutex_lock(&list->lock)
SessLockRegistry(c) ==
    /\ spc[c] = "remove"
    /\ drones.lock = NoThread
    /\ drones' = [drones EXCEPT !.lock = Session(c)]
    /\ spc' = [spc EXCEPT ![c] = "r_locked"]
    /\ UNCHANGED <<mem, survivor_array, survivors_mutex, slocal, ai, wire,
                   registrations, cycle, track, inbound, main_pc, gen_pc>>

\* removenode, list.c 491-541: the unlinking and the unlock; close(sock)
SessUnlockRegistry(c) ==
    /\ spc[c] = "r_locked"
    /\ LET r == removenode(drones, mem, slocal[c].node)
       IN  /\ drones' = [r.list EXCEPT !.lock = NoThread]
           /\ mem' = r.mem
    /\ slocal' = [slocal EXCEPT ![c] = NoLocals]
    /\ spc' = [spc EXCEPT ![c] = "closed"]
    /\ UNCHANGED <<survivor_array, survivors_mutex, ai, wire, registrations, cycle, track,
                   inbound, main_pc, gen_pc>>

\* update_simulation_stats, controller.c 155
StatsLockSurvivors ==
    /\ main_pc = "render"
    /\ survivors_mutex = NoThread
    /\ survivors_mutex' = StatsThread
    /\ main_pc' = "st_survivors"
    /\ UNCHANGED <<drones, mem, survivor_array, spc, slocal, ai, wire,
                   registrations, cycle, track, inbound, gen_pc>>

\* controller.c 156-172: the pass over the survivors and the unlock
StatsUnlockSurvivors ==
    /\ main_pc = "st_survivors"
    /\ survivor_array' = [k \in 1..num_survivors |->
                             IF survivor_array[k].status = RESCUED
                             THEN [survivor_array[k] EXCEPT !.status = ARCHIVED]
                             ELSE survivor_array[k]]
    /\ survivors_mutex' = NoThread
    /\ main_pc' = "st_registry"
    /\ UNCHANGED <<drones, mem, spc, slocal, ai, wire,
                   registrations, cycle, track, inbound, gen_pc>>

\* controller.c 175
StatsLockRegistry ==
    /\ main_pc = "st_registry"
    /\ drones.lock = NoThread
    /\ drones' = [drones EXCEPT !.lock = StatsThread]
    /\ main_pc' = "st_scan"
    /\ UNCHANGED <<mem, survivor_array, survivors_mutex, spc, slocal, ai, wire,
                   registrations, cycle, track, inbound, gen_pc>>

\* controller.c 183: the lock of a drone of the list (here of any one, in any
\* order)
StatsLockDrone ==
    /\ main_pc = "st_scan"
    /\ \E n \in Registered :
          /\ DLock(n) = NoThread
          /\ mem' = [mem EXCEPT ![n].data.lock = StatsThread]
    /\ main_pc' = "st_drone"
    /\ UNCHANGED <<drones, survivor_array, survivors_mutex, spc, slocal, ai, wire,
                   registrations, cycle, track, inbound, gen_pc>>

\* controller.c 192
StatsUnlockDrone ==
    /\ main_pc = "st_drone"
    /\ mem' = [n \in Nodes |-> IF DLock(n) = StatsThread
                               THEN [mem[n] EXCEPT !.data.lock = NoThread]
                               ELSE mem[n]]
    /\ main_pc' = "st_scan"
    /\ UNCHANGED <<drones, survivor_array, survivors_mutex, spc, slocal, ai, wire,
                   registrations, cycle, track, inbound, gen_pc>>

\* controller.c 196: the end of the list
StatsUnlockRegistry ==
    /\ main_pc = "st_scan"
    /\ drones' = [drones EXCEPT !.lock = NoThread]
    /\ main_pc' = "render"
    /\ UNCHANGED <<mem, survivor_array, survivors_mutex, spc, slocal, ai, wire,
                   registrations, cycle, track, inbound, gen_pc>>

\* survivor.c 170: usleep returns
GenWake ==
    /\ gen_pc = "sleep"
    /\ main_pc # "generator_cancel_sent"
    /\ gen_pc' = "lock"
    /\ UNCHANGED <<drones, mem, survivor_array, survivors_mutex, spc, slocal, ai, wire,
                   registrations, cycle, track, inbound, main_pc>>

\* survivor.c 173
GenLock ==
    /\ gen_pc = "lock"
    /\ survivors_mutex = NoThread
    /\ survivors_mutex' = GenThread
    /\ gen_pc' = "locked"
    /\ UNCHANGED <<drones, mem, survivor_array, spc, slocal, ai, wire,
                   registrations, cycle, track, inbound, main_pc>>

\* survivor.c 176-220: a new survivor or the recycling, and the unlock (every
\* survivor of this specification appears at the same cell)
GenUnlock ==
    /\ gen_pc = "locked"
    /\ LET xy == Coord(0, 0)
       IN  IF num_survivors < MaxSurvivors
           THEN survivor_array' = Append(survivor_array, [status |-> WAITING, coord |-> xy])
           ELSE survivor_array' = recycle_from(survivor_array,
                                               [k \in 1..num_survivors |-> xy], 0, 0)
    /\ survivors_mutex' = NoThread
    /\ gen_pc' = "sleep"
    /\ UNCHANGED <<drones, mem, spc, slocal, ai, wire,
                   registrations, cycle, track, inbound, main_pc>>

SessionLockStep(c) ==
    \/ SessLockDrone(c) \/ SessUnlockDrone(c)
    \/ SessLockSurvivors(c) \/ SessUnlockSurvivors(c)
    \/ SessLockRegistry(c) \/ SessUnlockRegistry(c)

StatsStep ==
    \/ StatsLockSurvivors \/ StatsUnlockSurvivors
    \/ StatsLockRegistry \/ StatsLockDrone \/ StatsUnlockDrone \/ StatsUnlockRegistry

GeneratorStep == GenWake \/ GenLock \/ GenUnlock

NextLocks ==
    \/ \E c \in Conns : SessionLockStep(c)
    \/ MatcherRuns
    \/ AiCancelled
    \/ StatsStep
    \/ GeneratorStep
    \/ MainCancelAi
    \/ MainJoinAi
    \/ MainCancelGenerator
    \/ GenCancelled
    \/ MainJoinGenerator

SpecLocks == InitLocks /\ [][NextLocks]_vars

\* the threads that take the locks
Threads == {AiThread, GenThread, StatsThread} \cup {Session(c) : c \in Conns}

\* the drone locks a thread holds
DroneLocksOf(t) == {n \in Nodes : DLock(n) = t}

\* the step is thread t acquiring the registry lock, a drone lock, the
\* survivors' lock
AcquiresRegistry(t) == drones.lock # t /\ drones'.lock = t
AcquiresDrone(t) == \E n \in Nodes : DLock(n) # t /\ DLock(n)' = t
AcquiresSurvivors(t) == survivors_mutex # t /\ survivors_mutex' = t

\* the process has not ended and none of its threads can take a step
Stuck == main_pc # "generator_joined" /\ ~ENABLED NextLocks

\* the order of acquisition: registry, then one drone, then the survivors
LockOrderKept ==
    [][\A t \in Threads :
          /\ AcquiresRegistry(t) => DroneLocksOf(t) = {} /\ survivors_mutex # t
          /\ AcquiresDrone(t) => DroneLocksOf(t) = {} /\ survivors_mutex # t]_vars

OneDroneLockEach == \A t \in Threads : Cardinality(DroneLocksOf(t)) <= 1

(* C33: a thread that acquires the registry lock holds no drone lock and not *)
(* the survivors' lock; a thread that acquires a drone lock holds no other   *)
(* drone lock and not the survivors' lock; no thread holds two drone locks;  *)
(* and in no reachable state are all the threads of the running process      *)
(* unable to take a step.                                                    *)
C33_LockOrderNoDeadlock ==
    /\ LockOrderKept
    /\ []OneDroneLockEach
    /\ []~Stuck

----------------------------------------------------------------------------
(* Socket I/O and the registry lock *)

\* the step is a send on a socket by the matcher, by the session of c
MatcherSends == ai.pc \in {"am_send", "am_send2"} /\ ai'.pc # ai.pc
SessionSends(c) == spc[c] \in {"hs_ack", "hs_ack2"} /\ spc'[c] # spc[c]

(* C34: no thread holds the registry lock in a step in which it writes to a  *)
(* socket: not the matcher when it sends ASSIGN_MISSION, not a session when  *)
(* it sends HANDSHAKE_ACK.                                                   *)
C34_NoRegistryLockAcrossIO ==
    [][/\ MatcherSends => drones.lock # AiThread
       /\ \A c \in Conns : SessionSends(c) => drones.lock # Session(c)]_vars

----------------------------------------------------------------------------
(* ai_controller, the survivor-centric matcher: for each waiting survivor    *)
(* find_closest_idle_drone and assign_mission, then the completion phase,    *)
(* then sleep.  Its locals are i (ai.survivor_index), current_num_survivors  *)
(* and drone (ai.current).                                                   *)

\* lines 477-479: current_num_survivors, read under survivors_mutex
ScCycleStart ==
    /\ ai.pc = "sleep"
    /\ survivors_mutex = NoThread
    /\ ai' = [pc |-> "sc_survivor", current |-> NULL, drone_pos |-> Coord(0, 0),
              survivor_index |-> 0, current_num_survivors |-> num_survivors]
    /\ UNCHANGED <<drones, mem, survivor_array, survivors_mutex, spc, slocal, wire,
                   registrations, cycle, track, inbound, main_pc, gen_pc>>

\* lines 484-494: the next survivor, its status read under survivors_mutex
ScSurvivor ==
    /\ ai.pc = "sc_survivor"
    /\ IF ai.survivor_index >= ai.current_num_survivors
       THEN ai' = [ai EXCEPT !.pc = "sc_complete"]
       ELSE /\ survivors_mutex = NoThread
            /\ IF survivor_array[ai.survivor_index + 1].status # WAITING
               THEN ai' = [ai EXCEPT !.survivor_index = @ + 1]
               ELSE ai' = [ai EXCEPT !.pc = "sc_find"]
    /\ UNCHANGED <<drones, mem, survivor_array, survivors_mutex, spc, slocal, wire,
                   registrations, cycle, track, inbound, main_pc, gen_pc>>

\* find_closest_idle_drone, lines 224-246: the scan from the head, keeping the
\* first idle drone of least distance
RECURSIVE idle_from(_, _, _, _, _)
idle_from(M, survivor_pos, n, closest_drone, min_distance) ==
    IF n = NULL THEN closest_drone
    ELSE LET d == M[n].data
             dist == calculate_distance(d.coord, survivor_pos)
         IN  IF d.status = "IDLE" /\ dist < min_distance
             THEN idle_from(M, survivor_pos, M[n].next, n, dist)
             ELSE idle_from(M, survivor_pos, M[n].next, closest_drone, min_distance)

find_closest_idle_drone(L, M, arr, survivor_index) ==
    idle_from(M, arr[survivor_index + 1].coord, L.head, NULL, INT_MAX)

\* find_closest_idle_drone, lines 203-251, under survivors_mutex and then under
\* the registry lock and each d->lock; the locks are released before it
\* returns the pointer.  Lines 499-502 when it returns NULL
ScFind ==
    /\ ai.pc = "sc_find"
    /\ survivors_mutex = NoThread
    /\ drones.lock = NoThread
    /\ \A n \in Registered : DLock(n) = NoThread
    /\ LET drone == find_closest_idle_drone(drones, mem, survivor_array, ai.survivor_index)
       IN  IF drone # NULL
           THEN ai' = [ai EXCEPT !.pc = "sc_lock", !.current = drone]
           ELSE ai' = [ai EXCEPT !.pc = "sc_survivor", !.survivor_index = @ + 1]
    /\ UNCHANGED <<drones, mem, survivor_array, survivors_mutex, spc, slocal, wire,
                   registrations, cycle, track, inbound, main_pc, gen_pc>>

\* assign_mission, line 83
ScLockDrone ==
    /\ ai.pc = "sc_lock"
    /\ DLock(ai.current) = NoThread
    /\ mem' = [mem EXCEPT ![ai.current].data.lock = AiThread]
    /\ ai' = [ai EXCEPT !.pc = "sc_lock2"]
    /\ UNCHANGED <<drones, survivor_array, survivors_mutex, spc, slocal, wire,
                   registrations, cycle, track, inbound, main_pc, gen_pc>>

\* assign_mission, lines 84-102 and 178-187
ScTransaction ==
    /\ ai.pc = "sc_lock2"
    /\ survivors_mutex = NoThread
    /\ survivors_mutex' = AiThread
    /\ LET i == ai.survivor_index
           d == ai.current
       IN  IF AssignPrecondition(survivor_array[i + 1], mem[d].data)
           THEN /\ mem' = [mem EXCEPT ![d].data.target = survivor_array[i + 1].coord,
                                      ![d].data.status = "ON_MISSION"]
                /\ survivor_array' = [survivor_array EXCEPT ![i + 1].status = BEING_HELPED]
                /\ ai' = [ai EXCEPT !.pc = IF mem[d].data.socket > 0 THEN "sc_send"
                                           ELSE "sc_unlock"]
           ELSE /\ ai' = [ai EXCEPT !.pc = "sc_unlock"]
                /\ UNCHANGED <<mem, survivor_array>>
    /\ UNCHANGED <<drones, spc, slocal, wire, registrations, cycle, track, inbound,
                   main_pc, gen_pc>>

\* assign_mission, lines 105-159
ScSend ==
    /\ ai.pc = "sc_send"
    /\ LET i == ai.survivor_index
           d == ai.current
       IN  \E outcome \in {"fail", "full"} :
              IF outcome = "fail"
              THEN /\ mem' = [mem EXCEPT ![d].data.status = "IDLE"]
                   /\ survivor_array' = [survivor_array EXCEPT ![i + 1].status = WAITING]
              ELSE UNCHANGED <<mem, survivor_array>>
    /\ ai' = [ai EXCEPT !.pc = "sc_unlock"]
    /\ UNCHANGED <<drones, survivors_mutex, spc, slocal, wire, registrations, cycle, track,
                   inbound, main_pc, gen_pc>>

\* assign_mission, lines 190-191, and lines 499-502 of the controller
ScUnlock ==
    /\ ai.pc = "sc_unlock"
    /\ survivors_mutex' = NoThread
    /\ mem' = [mem EXCEPT ![ai.current].data.lock = NoThread]
    /\ ai' = [ai EXCEPT !.pc = "sc_survivor", !.current = NULL, !.survivor_index = @ + 1]
    /\ UNCHANGED <<drones, survivor_array, spc, slocal, wire, registrations, cycle, track,
                   inbound, main_pc, gen_pc>>

\* lines 519-562: from node n on, every drone ON_MISSION that stands on its
\* target rescues the first survivor being helped there and becomes IDLE
RECURSIVE completions_from(_, _, _)
completions_from(M, arr, n) ==
    IF n = NULL THEN [mem |-> M, survivor_array |-> arr]
    ELSE LET d == M[n].data
             js == {j \in 1..Len(arr) : arr[j].status = BEING_HELPED /\ arr[j].coord = d.target}
         IN  IF d.status = "ON_MISSION" /\ d.coord = d.target /\ js # {}
             THEN LET j == CHOOSE j \in js : \A k \in js : j <= k
                  IN  completions_from([M EXCEPT ![n].data.status = "IDLE"],
                                       [arr EXCEPT ![j].status = RESCUED], M[n].next)
             ELSE completions_from(M, arr, M[n].next)

\* lines 508-565: the completion phase, under the registry lock, each d->lock
\* and, inside it, survivors_mutex; then the sleep of line 580
ScCompletionPhase ==
    /\ ai.pc = "sc_complete"
    /\ drones.lock = NoThread
    /\ survivors_mutex = NoThread
    /\ \A n \in Registered : DLock(n) = NoThread
    /\ LET r == completions_from(mem, survivor_array, drones.head)
       IN  /\ mem' = r.mem
           /\ survivor_array' = r.survivor_array
    /\ ai' = AiIdle
    /\ UNCHANGED <<drones, survivors_mutex, spc, slocal, wire, registrations, cycle, track,
                   inbound, main_pc, gen_pc>>

SurvivorCentricStep ==
    \/ ScCycleStart \/ ScSurvivor \/ ScFind
    \/ ScLockDrone \/ ScTransaction \/ ScSend \/ ScUnlock
    \/ ScCompletionPhase

(* The sessions that shake hands and hang up, the generator, and the         *)
(* survivor-centric matcher in place of the drone-centric one.               *)
NextSurvivorCentric ==
    \/ \E c \in Conns : \/ HsRecv(c) \/ HsAdd(c) \/ HsAckSend(c)
                        \/ SessDisconnect(c) \/ SessRemove(c)
    \/ SurvivorCentricStep
    \/ SurvivorGenerate

SpecSurvivorCentric == Init /\ [][NextSurvivorCentric]_vars

\* the step is one of assign_mission on the drone find_closest_idle_drone
\* returned: its lock, the transaction, the send and rollback, the unlock
AssignMissionStep == ai.pc \in {"sc_lock", "sc_lock2", "sc_send", "sc_unlock"} /\ ai'.pc # ai.pc

(* C35: every step of assign_mission in the survivor-centric matcher finds   *)
(* the node of the drone it was given still in the registry: occupied, not   *)
(* removed and returned to the free list since find_closest_idle_drone       *)
(* returned it.                                                              *)
C35_ScannedDroneStaysValid ==
    [][AssignMissionStep => mem[ai.current].occupied = 1]_vars

----------------------------------------------------------------------------
(* Recycling *)

(* C36: no step takes a survivor record whose status is RESCUED back to an   *)
(* earlier status or changes its coord: the generator resets a record only   *)
(* once it is ARCHIVED.                                                      *)
C36_RecycleArchivedOnly ==
    [][\A k \in 1..Len(survivor_array) :
          survivor_array[k].status = RESCUED
             => /\ survivor_array'[k].status >= RESCUED
                /\ survivor_array'[k].coord = survivor_array[k].coord]_vars

----------------------------------------------------------------------------
(* The statistics pass *)

\* the step is one of update_simulation_stats
StatsPassStep ==
    /\ main_pc \in {"render", "st_survivors", "st_registry", "st_scan", "st_drone"}
    /\ main_pc' \in {"st_survivors", "st_registry", "st_scan", "st_drone", "render"}
    /\ main_pc' # main_pc

\* the statuses of the survivors and of the drones
SurvivorStatuses == [k \in 1..Len(survivor_array) |-> survivor_array[k].status]
DroneStatuses == [n \in Nodes |-> mem[n].data.status]

(* C37: a step of update_simulation_stats leaves the status of every         *)
(* survivor and of every drone as it was.                                    *)
C37_StatsReadOnly ==
    [][StatsPassStep => /\ SurvivorStatuses' = SurvivorStatuses
                        /\ DroneStatuses' = DroneStatuses]_vars

----------------------------------------------------------------------------
(* The first message on a connection *)

(* C38: the first bytes the server writes to a connection are those of a     *)
(* HANDSHAKE_ACK, whichever of the session and the matcher writes first.     *)
C38_AckIsFirstMessage ==
    [][\A c \in Conns :
          (wire[c] = <<>> /\ wire'[c] # <<>>) => wire'[c][1].type = "HANDSHAKE_ACK"]_vars

----------------------------------------------------------------------------
(* Missions to their end, fairly: the registered drone of the missions       *)
(* specification, whose client reports every mission it is given complete    *)
(* and no other (unless it hangs up, which it may at any time), with every   *)
(* thread of the server scheduled again and again.                           *)

\* the client of c reports the mission it has received complete, at its target
Completes(c) ==
    /\ spc[c] = "ready"
    /\ mem[slocal[c].node].data.status = "ON_MISSION"
    /\ mem[slocal[c].node].data.lock = NoThread
    /\ SessMissionComplete(c)
    /\ slocal'[c].target_coord = mem[slocal[c].node].data.target

NextHelped ==
    \/ \E c \in Conns : \/ Completes(c) \/ SessMissionIdle(c) \/ SessMissionUpdate(c)
                        \/ SessDisconnect(c) \/ SessRemove(c)
    \/ MatcherStep
    \/ AmSendRest
    \/ SurvivorGenerate
    \/ UpdateSimulationStats

SpecHelped ==
    /\ InitMissions
    /\ [][NextHelped]_vars
    /\ WF_vars(MatcherStep)
    /\ WF_vars(AmSendRest)
    /\ \A c \in Conns : /\ SF_vars(Completes(c))
                        /\ SF_vars(SessMissionIdle(c))
                        /\ SF_vars(SessMissionUpdate(c))
                        /\ SF_vars(SessRemove(c))

\* survivor k (of the source's index k - 1) is being helped
BeingHelped(k) == k <= Len(survivor_array) /\ survivor_array[k].status = BEING_HELPED

(* C39: a survivor that is BEING_HELPED is eventually not, whether its drone *)
(* reports completion or disconnects and is removed first.                   *)
C39_HelpedEventuallyLeaves ==
    \A k \in 1..MaxSurvivors : BeingHelped(k) ~> ~BeingHelped(k)

----------------------------------------------------------------------------
(* Waiting survivors, fairly: the registered drone stays connected, its      *)
(* client reports every mission it has received complete, and the matcher,   *)
(* the session, the generator and the statistics pass all keep running.      *)

\* the send of ASSIGN_MISSION reaches the drone's socket: no rollback
Delivers ==
    /\ AmSend
    /\ mem'[ai.current].data.status = "ON_MISSION"

NextAssigned ==
    \/ \E c \in Conns : Completes(c) \/ SessMissionIdle(c) \/ SessMissionUpdate(c)
    \/ MatcherStep
    \/ AmSendRest
    \/ SurvivorGenerate
    \/ UpdateSimulationStats

SpecAssigned ==
    /\ InitMissions
    /\ [][NextAssigned]_vars
    /\ WF_vars(MatcherStep)
    /\ SF_vars(Delivers)
    /\ WF_vars(AmSendRest)
    /\ WF_vars(SurvivorGenerate)
    /\ WF_vars(UpdateSimulationStats)
    /\ \A c \in Conns : /\ SF_vars(Completes(c))
                        /\ SF_vars(SessMissionIdle(c))
                        /\ SF_vars(SessMissionUpdate(c))

Waiting(k) == k <= Len(survivor_array) /\ survivor_array[k].status = WAITING

(* C40: under fair scheduling, with a connected drone that keeps completing  *)
(* its missions and returning to IDLE, every survivor that becomes WAITING   *)
(* is eventually assigned (BEING_HELPED), even while the generator keeps     *)
(* producing waiting survivors that are closer to the drone.                 *)
C40_WaitingEventuallyAssigned ==
    \A k \in 1..MaxSurvivors : Waiting(k) ~> BeingHelped(k)

====
